---- MODULE Spec2Model ----
(***************************************************************************)
(* Model of gift_aid_schedule_builder: the declaration-row parser, the key *)
(* cleaner, the eligibility decision and the filtering loop that turns     *)
(* parsed transaction rows and donor declarations into the list of         *)
(* gift-aidable transactions and the two logs.                             *)
(*                                                                         *)
(* Strings are sequences of one-character strings, dates are records       *)
(* [year, month, day], Decimal amounts are integers (pence), and an        *)
(* Optional value is the empty sequence (None) or a one-element sequence.  *)
(* The amount parser yields a Decimal as its sign, coefficient and number  *)
(* of decimal places.                                                      *)
(***************************************************************************)
EXTENDS Integers, Sequences, FiniteSets, TLC

VARIABLES
    transaction_rows,        \* argument of _do_filtering_with_logging
    declarations,            \* argument of _do_filtering_with_logging
    row_index,               \* enumerate(transaction_rows, 2): next row to process
    transactions,            \* the list of GiftAidableTransaction being built
    transactions_log,        \* writes made to transactions_log_file
    manual_handling_log,     \* writes made to transactions_that_need_manual_handling_log_file
    matching_declarations,   \* that local in the iteration just ended: None when not computed
    transaction_eligability, \* that local in the iteration just ended: None when not computed
    warnings_issued,         \* warnings.warn calls: the row index each one names
    pc,                      \* "filtering", "returned", "raised" ("idle" outside a run)
    fn,                      \* pure-function harness: the function under evaluation
    arg,                     \* its argument
    ret,                     \* its outcome
    outputs_directory,       \* names of the entries of the outputs directory
    output_files,            \* files written: <<directory name, file name>>
    _output_directory,       \* the module global: None or Some(directory name)
    date_stamp,              \* date.today().isoformat()
    template,                \* templates/gift_aid_schedule__libre_.xlsx: "valid", "missing", "malformed"
    transactions_file,       \* transactions.csv: None when missing, else Some(header row and rows)
    declarations_file,       \* declarations.csv, likewise
    worksheet,               \* cells written by _write_transactions_to_output_workbook
    main_pc,                 \* position of the process in main / build_output_directory
    call_site,               \* the caller of _get_output_directory awaiting its return
    uncaught_exception,      \* None, or Some(exception that ended the process)
    get_output_directory_calls, \* this process's calls: caller and path returned
    mkdir_calls,             \* this process's _output_directory.mkdir() calls: name, created or not
    run_number,              \* how many processes were started so far
    allocated,               \* the run directories created by the successive processes
    interferences            \* directories another program created meanwhile

vars == <<transaction_rows, declarations, row_index, transactions,
          transactions_log, manual_handling_log, matching_declarations,
          transaction_eligability, warnings_issued, pc, fn, arg, ret,
          outputs_directory, output_files, _output_directory, date_stamp, template,
          transactions_file, declarations_file, worksheet, main_pc, call_site,
          uncaught_exception, get_output_directory_calls, mkdir_calls, run_number,
          allocated, interferences>>

pipeline_vars == <<transaction_rows, declarations, row_index, transactions,
                   transactions_log, manual_handling_log, matching_declarations,
                   transaction_eligability, warnings_issued, pc>>

harness_vars == <<fn, arg, ret>>

\* the file system and the process running main or build_output_directory
program_vars == <<outputs_directory, output_files, _output_directory, date_stamp,
                  template, transactions_file, declarations_file, worksheet, main_pc,
                  call_site, uncaught_exception, get_output_directory_calls,
                  mkdir_calls, run_number, allocated, interferences>>

----------------------------------------------------------------------------
(* Optional values *)

None == <<>>

Some(x) == <<x>>

IsNone(o) == o = <<>>

----------------------------------------------------------------------------
(* Characters and strings *)

UpperAlphabet ==
    <<"A", "B", "C", "D", "E", "F", "G", "H", "I", "J", "K", "L", "M",
      "N", "O", "P", "Q", "R", "S", "T", "U", "V", "W", "X", "Y", "Z">>

LowerAlphabet ==
    <<"a", "b", "c", "d", "e", "f", "g", "h", "i", "j", "k", "l", "m",
      "n", "o", "p", "q", "r", "s", "t", "u", "v", "w", "x", "y", "z">>

UpperLetters == {UpperAlphabet[i] : i \in 1..26}

LowerLetters == {LowerAlphabet[i] : i \in 1..26}

Digits == {"0", "1", "2", "3", "4", "5", "6", "7", "8", "9"}

Whitespace == {" ", "\t"}

\* the Kelvin sign, an upper-case letter outside A-Z whose lower case is "k"
KelvinSign == "U+212A"

\* str.lower() on one character
LowerChar(c) ==
    IF c \in UpperLetters
    THEN LowerAlphabet[CHOOSE i \in 1..26 : UpperAlphabet[i] = c]
    ELSE IF c = KelvinSign THEN "k" ELSE c

\* str.upper() on one character
UpperChar(c) ==
    IF c \in LowerLetters
    THEN UpperAlphabet[CHOOSE i \in 1..26 : LowerAlphabet[i] = c]
    ELSE c

\* str.lower()
Lower(s) == [i \in 1..Len(s) |-> LowerChar(s[i])]

\* str.upper()
Upper(s) == [i \in 1..Len(s) |-> UpperChar(s[i])]

IsLowerLetter(c) == c \in LowerLetters

\* variant: the input is not lower-cased
CleanKey_case_sensitive(reference_or_identifier) ==
    SelectSeq(reference_or_identifier, IsLowerLetter)

\* re.sub(r"[^a-z]+", "", s.lower())
clean_key(reference_or_identifier) ==
    SelectSeq(Lower(reference_or_identifier), IsLowerLetter)

Last(s) == s[Len(s)]

\* variant: `haystack.startswith(needle)`
StrContains_startswith(haystack, needle) ==
    /\ Len(needle) <= Len(haystack)
    /\ SubSeq(haystack, 1, Len(needle)) = needle

\* Python's `needle in haystack` on str
StrContains(haystack, needle) ==
    \E i \in 0..(Len(haystack) - Len(needle)) :
        SubSeq(haystack, i + 1, i + Len(needle)) = needle

RECURSIVE LStrip(_)
LStrip(s) ==
    IF s # <<>> /\ Head(s) \in Whitespace THEN LStrip(Tail(s)) ELSE s

RECURSIVE RStrip(_)
RStrip(s) ==
    IF s # <<>> /\ s[Len(s)] \in Whitespace
    THEN RStrip(SubSeq(s, 1, Len(s) - 1))
    ELSE s

\* str.strip()
Strip(s) == RStrip(LStrip(s))

----------------------------------------------------------------------------
(* Calendar dates (datetime.date) *)

MINYEAR == 1

MAXYEAR == 9999

IsLeapYear(y) == (y % 4 = 0) /\ ((y % 100 # 0) \/ (y % 400 = 0))

DaysInMonth(y, m) ==
    CASE m \in {1, 3, 5, 7, 8, 10, 12} -> 31
      [] m \in {4, 6, 9, 11} -> 30
      [] OTHER -> IF IsLeapYear(y) THEN 29 ELSE 28

\* the argument check of the date constructor
IsValidDate(y, m, d) ==
    /\ MINYEAR <= y /\ y <= MAXYEAR
    /\ 1 <= m /\ m <= 12
    /\ 1 <= d /\ d <= DaysInMonth(y, m)

Date(y, m, d) == [year |-> y, month |-> m, day |-> d]

\* date.__lt__
DateLT(a, b) ==
    \/ a.year < b.year
    \/ a.year = b.year /\ a.month < b.month
    \/ a.year = b.year /\ a.month = b.month /\ a.day < b.day

DateLE(a, b) == a = b \/ DateLT(a, b)

\* date.replace(year=y): Some(date), or None when the constructor raises ValueError
ReplaceYear(dt, y) ==
    IF IsValidDate(y, dt.month, dt.day) THEN Some(Date(y, dt.month, dt.day)) ELSE None

----------------------------------------------------------------------------
(* TransactionEligability and the eligibility decision *)

IS_GIFT_AIDABLE == "IS_GIFT_AIDABLE"

TRANSACTION_OCCURRED_MORE_THAN_FOUR_YEARS_BEFORE_DECLARATION ==
    "TRANSACTION_OCCURRED_MORE_THAN_FOUR_YEARS_BEFORE_DECLARATION"

DECLARATION_INVALID_FOUR_YEARS_PRECEEDING_DAY_OF_DECLARATION ==
    "DECLARATION_INVALID_FOUR_YEARS_PRECEEDING_DAY_OF_DECLARATION"

DECLARATION_INVALID_FOR_DAY_OF_DECLARATION ==
    "DECLARATION_INVALID_FOR_DAY_OF_DECLARATION"

DECLARATION_INVALID_AFTER_DAY_OF_DECLARATION ==
    "DECLARATION_INVALID_AFTER_DAY_OF_DECLARATION"

TransactionEligability ==
    { IS_GIFT_AIDABLE,
      TRANSACTION_OCCURRED_MORE_THAN_FOUR_YEARS_BEFORE_DECLARATION,
      DECLARATION_INVALID_FOUR_YEARS_PRECEEDING_DAY_OF_DECLARATION,
      DECLARATION_INVALID_FOR_DAY_OF_DECLARATION,
      DECLARATION_INVALID_AFTER_DAY_OF_DECLARATION }

\* outcome of a call that did not return: the exception raised
ValueError == "ValueError"

\* a call that raised `exception` where a record was to be returned
Raised(exception) == [exception |-> exception]

\* variant: the first test is `transaction_date <= cutoff`
EligabilityFromCutoff_cutoff_day_excluded(transaction_date, declaration, four_years_preceeding_declaration_date) ==
    LET declaration_date == declaration.declaration_date IN
    IF DateLE(transaction_date, four_years_preceeding_declaration_date)
    THEN TRANSACTION_OCCURRED_MORE_THAN_FOUR_YEARS_BEFORE_DECLARATION
    ELSE IF /\ DateLT(transaction_date, declaration_date)
            /\ ~declaration.valid_four_years_before_declaration
    THEN DECLARATION_INVALID_FOUR_YEARS_PRECEEDING_DAY_OF_DECLARATION
    ELSE IF /\ transaction_date = declaration_date
            /\ ~declaration.valid_day_of_declaration
    THEN DECLARATION_INVALID_FOR_DAY_OF_DECLARATION
    ELSE IF /\ DateLT(declaration_date, transaction_date)
            /\ ~declaration.valid_after_day_of_declaration
    THEN DECLARATION_INVALID_AFTER_DAY_OF_DECLARATION
    ELSE IS_GIFT_AIDABLE

\* the if/elif chain once the cutoff date has been built
EligabilityFromCutoff(transaction_date, declaration, four_years_preceeding_declaration_date) ==
    LET declaration_date == declaration.declaration_date IN
    IF DateLT(transaction_date, four_years_preceeding_declaration_date)
    THEN TRANSACTION_OCCURRED_MORE_THAN_FOUR_YEARS_BEFORE_DECLARATION
    ELSE IF /\ DateLE(four_years_preceeding_declaration_date, transaction_date)
            /\ DateLT(transaction_date, declaration_date)
            /\ ~declaration.valid_four_years_before_declaration
    THEN DECLARATION_INVALID_FOUR_YEARS_PRECEEDING_DAY_OF_DECLARATION
    ELSE IF /\ transaction_date = declaration_date
            /\ ~declaration.valid_day_of_declaration
    THEN DECLARATION_INVALID_FOR_DAY_OF_DECLARATION
    ELSE IF /\ DateLT(declaration_date, transaction_date)
            /\ ~declaration.valid_after_day_of_declaration
    THEN DECLARATION_INVALID_AFTER_DAY_OF_DECLARATION
    ELSE IS_GIFT_AIDABLE

\* variant: the cutoff is the declaration date with its year reduced by 5
DetermineEligability_five_year_cutoff(transaction_row, declaration) ==
    LET cutoff == ReplaceYear(declaration.declaration_date,
                              declaration.declaration_date.year - 5)
    IN  IF IsNone(cutoff)
        THEN ValueError
        ELSE EligabilityFromCutoff(transaction_row.transaction_date, declaration, cutoff[1])

\* _determine_whether_transaction_gift_aidable_for_declaration: a member of
\* TransactionEligability, or ValueError when declaration_date.replace raises
_determine_whether_transaction_gift_aidable_for_declaration(transaction_row, declaration) ==
    LET cutoff == ReplaceYear(declaration.declaration_date,
                              declaration.declaration_date.year - 4)
    IN  IF IsNone(cutoff)
        THEN ValueError
        ELSE EligabilityFromCutoff(transaction_row.transaction_date, declaration, cutoff[1])

----------------------------------------------------------------------------
(* logic/parsing/dates.py: strptime with "%d/%m/%Y", then "%d/%m/%y" *)

DigitValue(c) ==
    CASE c = "0" -> 0 [] c = "1" -> 1 [] c = "2" -> 2 [] c = "3" -> 3
      [] c = "4" -> 4 [] c = "5" -> 5 [] c = "6" -> 6 [] c = "7" -> 7
      [] c = "8" -> 8 [] c = "9" -> 9

AllDigits(s) == \A i \in 1..Len(s) : s[i] \in Digits

RECURSIVE DecimalValue(_)
DecimalValue(s) ==
    IF s = <<>> THEN 0
    ELSE 10 * DecimalValue(SubSeq(s, 1, Len(s) - 1)) + DigitValue(s[Len(s)])

\* the %d directive: 3[0-1] | [1-2]\d | 0[1-9] | [1-9] | " "[1-9]
MatchesDayDirective(s) ==
    \/ Len(s) = 2 /\ s[1] = "3" /\ s[2] \in {"0", "1"}
    \/ Len(s) = 2 /\ s[1] \in {"1", "2"} /\ s[2] \in Digits
    \/ Len(s) = 2 /\ s[1] \in {"0", " "} /\ s[2] \in Digits \ {"0"}
    \/ Len(s) = 1 /\ s[1] \in Digits \ {"0"}

\* the %m directive: 1[0-2] | 0[1-9] | [1-9]
MatchesMonthDirective(s) ==
    \/ Len(s) = 2 /\ s[1] = "1" /\ s[2] \in {"0", "1", "2"}
    \/ Len(s) = 2 /\ s[1] = "0" /\ s[2] \in Digits \ {"0"}
    \/ Len(s) = 1 /\ s[1] \in Digits \ {"0"}

\* %y: values 69-99 are 1969-1999, values 0-68 are 2000-2068
TwoDigitYear(v) == IF v <= 68 THEN 2000 + v ELSE 1900 + v

DayValue(s) == IF s[1] = " " THEN DigitValue(s[2]) ELSE DecimalValue(s)

\* positions of "/" in s
SlashPositions(s) == {i \in 1..Len(s) : s[i] = "/"}

\* datetime.strptime(s, "%d/%m/%Y" or "%d/%m/%y").date() with year_digits 4 or 2:
\* Some(date), or None for ValueError
Strptime(s, year_digits) ==
    LET ps == SlashPositions(s) IN
    IF Cardinality(ps) # 2 THEN None
    ELSE LET p1 == CHOOSE i \in ps : \A j \in ps : i <= j
             p2 == CHOOSE i \in ps : \A j \in ps : j <= i
             dd == SubSeq(s, 1, p1 - 1)
             mm == SubSeq(s, p1 + 1, p2 - 1)
             yy == SubSeq(s, p2 + 1, Len(s))
         IN  IF /\ MatchesDayDirective(dd)
                /\ MatchesMonthDirective(mm)
                /\ Len(yy) = year_digits
                /\ AllDigits(yy)
             THEN LET y == IF year_digits = 4 THEN DecimalValue(yy)
                           ELSE TwoDigitYear(DecimalValue(yy))
                  IN  IF IsValidDate(y, DecimalValue(mm), DayValue(dd))
                      THEN Some(Date(y, DecimalValue(mm), DayValue(dd)))
                      ELSE None
             ELSE None

\* variant: only the four-digit year is tried
ParseUkFormattedDate_four_digit_year_only(date_string) == Strptime(date_string, 4)

\* parse_uk_formatted_date: Some(date), or None when it raises ValueError
parse_uk_formatted_date(date_string) ==
    IF ~IsNone(Strptime(date_string, 4))
    THEN Strptime(date_string, 4)
    ELSE Strptime(date_string, 2)

----------------------------------------------------------------------------
(* logic/parsing/parse_declarations_csv.py *)

\* _parse_boolean: Some(bool), or None when it raises BooleanParsingError
_parse_boolean(boolean_string) ==
    IF boolean_string = <<"0">> THEN Some(FALSE)
    ELSE IF boolean_string = <<"1">> THEN Some(TRUE)
    ELSE None

IsUpperLetter(c) == c \in UpperLetters

IsUpperLetterOrDigit(c) == c \in UpperLetters \cup Digits

\* re.sub(r"^[^A-Z]+", "", s)
RECURSIVE StripLeadingNonLetters(_)
StripLeadingNonLetters(s) ==
    IF s # <<>> /\ ~IsUpperLetter(Head(s)) THEN StripLeadingNonLetters(Tail(s)) ELSE s

\* re.sub(r"[^A-Z]+$", "", s)
RECURSIVE StripTrailingNonLetters(_)
StripTrailingNonLetters(s) ==
    IF s # <<>> /\ ~IsUpperLetter(s[Len(s)])
    THEN StripTrailingNonLetters(SubSeq(s, 1, Len(s) - 1))
    ELSE s

\* variant: the space is inserted before the last two characters
CleanPostcode_space_before_last_two(raw_postcode) ==
    LET postcode == Strip(Upper(raw_postcode)) IN
    IF postcode = <<"X">> THEN postcode
    ELSE LET stripped == SelectSeq(StripTrailingNonLetters(StripLeadingNonLetters(postcode)),
                                   IsUpperLetterOrDigit)
         IN  IF Len(stripped) > 2
             THEN SubSeq(stripped, 1, Len(stripped) - 2) \o <<" ">>
                  \o SubSeq(stripped, Len(stripped) - 1, Len(stripped))
             ELSE stripped

clean_postcode(raw_postcode) ==
    LET postcode == Strip(Upper(raw_postcode)) IN
    IF postcode = <<"X">> THEN postcode
    ELSE LET stripped == SelectSeq(StripTrailingNonLetters(StripLeadingNonLetters(postcode)),
                                   IsUpperLetterOrDigit)
         IN  IF Len(stripped) > 2
             THEN SubSeq(stripped, 1, Len(stripped) - 3) \o <<" ">>
                  \o SubSeq(stripped, Len(stripped) - 2, Len(stripped))
             ELSE stripped

\* valid_uk_postcode_regex: ^[A-Z]{1,2}\d{1,2}[A-Z]? \d[A-Z]{2}$
MatchesValidUkPostcodeRegex(s) ==
    \E a \in 1..2, b \in 1..2, c \in 0..1 :
        /\ Len(s) = a + b + c + 4
        /\ \A i \in 1..a : s[i] \in UpperLetters
        /\ \A i \in (a + 1)..(a + b) : s[i] \in Digits
        /\ \A i \in (a + b + 1)..(a + b + c) : s[i] \in UpperLetters
        /\ s[a + b + c + 1] = " "
        /\ s[a + b + c + 2] \in Digits
        /\ s[a + b + c + 3] \in UpperLetters
        /\ s[a + b + c + 4] \in UpperLetters

validate_postcode(cleaned_postcode) ==
    IF cleaned_postcode = <<"X">> THEN TRUE
    ELSE MatchesValidUkPostcodeRegex(cleaned_postcode)

\* a call that returned `value`
Returned(value) == [ok |-> TRUE, value |-> Some(value), column_number |-> None]

\* a call that raised a row parsing error carrying `column_number` (None or Some(n))
RowParsingError(column_number) ==
    [ok |-> FALSE, value |-> None, column_number |-> column_number]

\* the DeclarationRow constructor
DeclarationRow(title, first_name, last_name, house_number_or_name, postcode, declaration_date, valid_four_years_before_declaration, valid_day_of_declaration, valid_after_day_of_declaration, identifier) ==
    [ title |-> title, first_name |-> first_name, last_name |-> last_name,
      house_number_or_name |-> house_number_or_name, postcode |-> postcode,
      declaration_date |-> declaration_date,
      valid_four_years_before_declaration |-> valid_four_years_before_declaration,
      valid_day_of_declaration |-> valid_day_of_declaration,
      valid_after_day_of_declaration |-> valid_after_day_of_declaration,
      identifier |-> identifier ]

\* variant: the identifier is tested before the other fields
DeclarationRow_from_row_identifier_first(row) ==
    IF Len(row) # 10 THEN RowParsingError(None)
    ELSE
    LET title == Strip(row[1])
        first_name == Strip(row[2])
        last_name == Strip(row[3])
        house_number_or_name == Strip(row[4])
        postcode == clean_postcode(row[5])
        declaration_date == parse_uk_formatted_date(Strip(row[6]))
        valid_four_years_before_declaration == _parse_boolean(Strip(row[7]))
        valid_day_of_declaration == _parse_boolean(Strip(row[8]))
        valid_after_day_of_declaration == _parse_boolean(Strip(row[9]))
        identifier == Strip(row[10])
    IN  IF identifier = <<>> THEN RowParsingError(Some(10))
        ELSE IF Len(title) > 4 THEN RowParsingError(Some(1))
        ELSE IF first_name = <<>> THEN RowParsingError(Some(2))
        ELSE IF Len(first_name) > 35 THEN RowParsingError(Some(2))
        ELSE IF last_name = <<>> THEN RowParsingError(Some(3))
        ELSE IF Len(last_name) > 35 THEN RowParsingError(Some(3))
        ELSE IF \E i \in 1..Len(last_name) : last_name[i] = "-" THEN RowParsingError(Some(3))
        ELSE IF house_number_or_name = <<>> THEN RowParsingError(Some(4))
        ELSE IF Len(house_number_or_name) > 40 THEN RowParsingError(Some(4))
        ELSE IF postcode = <<>> THEN RowParsingError(Some(5))
        ELSE IF ~validate_postcode(postcode) THEN RowParsingError(Some(5))
        ELSE IF IsNone(declaration_date) THEN RowParsingError(Some(6))
        ELSE IF IsNone(valid_four_years_before_declaration) THEN RowParsingError(Some(7))
        ELSE IF IsNone(valid_day_of_declaration) THEN RowParsingError(Some(8))
        ELSE IF IsNone(valid_after_day_of_declaration) THEN RowParsingError(Some(9))
        ELSE IF identifier = <<>> THEN RowParsingError(Some(10))
        ELSE Returned(DeclarationRow(title, first_name, last_name, house_number_or_name,
                                     postcode, declaration_date[1],
                                     valid_four_years_before_declaration[1],
                                     valid_day_of_declaration[1],
                                     valid_after_day_of_declaration[1], identifier))

\* DeclarationRow.from_row: the checks in the order the code makes them
DeclarationRow_from_row(row) ==
    IF Len(row) # 10 THEN RowParsingError(None)
    ELSE
    LET title == Strip(row[1])
        first_name == Strip(row[2])
        last_name == Strip(row[3])
        house_number_or_name == Strip(row[4])
        postcode == clean_postcode(row[5])
        declaration_date == parse_uk_formatted_date(Strip(row[6]))
        valid_four_years_before_declaration == _parse_boolean(Strip(row[7]))
        valid_day_of_declaration == _parse_boolean(Strip(row[8]))
        valid_after_day_of_declaration == _parse_boolean(Strip(row[9]))
        identifier == Strip(row[10])
    IN  IF Len(title) > 4 THEN RowParsingError(Some(1))
        ELSE IF first_name = <<>> THEN RowParsingError(Some(2))
        ELSE IF Len(first_name) > 35 THEN RowParsingError(Some(2))
        ELSE IF last_name = <<>> THEN RowParsingError(Some(3))
        ELSE IF Len(last_name) > 35 THEN RowParsingError(Some(3))
        ELSE IF \E i \in 1..Len(last_name) : last_name[i] = "-" THEN RowParsingError(Some(3))
        ELSE IF house_number_or_name = <<>> THEN RowParsingError(Some(4))
        ELSE IF Len(house_number_or_name) > 40 THEN RowParsingError(Some(4))
        ELSE IF postcode = <<>> THEN RowParsingError(Some(5))
        ELSE IF ~validate_postcode(postcode) THEN RowParsingError(Some(5))
        ELSE IF IsNone(declaration_date) THEN RowParsingError(Some(6))
        ELSE IF IsNone(valid_four_years_before_declaration) THEN RowParsingError(Some(7))
        ELSE IF IsNone(valid_day_of_declaration) THEN RowParsingError(Some(8))
        ELSE IF IsNone(valid_after_day_of_declaration) THEN RowParsingError(Some(9))
        ELSE IF identifier = <<>> THEN RowParsingError(Some(10))
        ELSE Returned(DeclarationRow(title, first_name, last_name, house_number_or_name,
                                     postcode, declaration_date[1],
                                     valid_four_years_before_declaration[1],
                                     valid_day_of_declaration[1],
                                     valid_after_day_of_declaration[1], identifier))

----------------------------------------------------------------------------
(* models.py *)

\* DonorDeclaration.from_declaration_row
DonorDeclaration_from_declaration_row(declaration_row) ==
    [ title |-> declaration_row.title,
      first_name |-> declaration_row.first_name,
      last_name |-> declaration_row.last_name,
      house_name_or_number |-> declaration_row.house_number_or_name,
      postcode |-> declaration_row.postcode,
      declaration_date |-> declaration_row.declaration_date,
      valid_four_years_before_declaration |->
          declaration_row.valid_four_years_before_declaration,
      valid_day_of_declaration |-> declaration_row.valid_day_of_declaration,
      valid_after_day_of_declaration |-> declaration_row.valid_after_day_of_declaration,
      identifier |-> clean_key(declaration_row.identifier) ]

IsNonEmpty(s) == s # <<>>

\* DonorDeclaration.donor_name: " ".join of the non-empty name parts,
\* kept as the sequence of the parts joined
donor_name(declaration) ==
    SelectSeq(<<declaration.title, declaration.first_name, declaration.last_name>>,
              IsNonEmpty)

\* variant: only an absent amount is refused
FromTransactionRow_negative_amount_kept(transaction_row, donor_declaration) ==
    IF IsNone(transaction_row.amount)
    THEN Raised(ValueError)
    ELSE [ transaction_date |-> transaction_row.transaction_date,
           amount |-> transaction_row.amount[1],
           donor_declaration |-> donor_declaration ]

\* GiftAidableTransaction.from_transaction_row: the transaction, or ValueError
\* when the row's amount is None or below zero
GiftAidableTransaction_from_transaction_row(transaction_row, donor_declaration) ==
    IF IsNone(transaction_row.amount) \/ transaction_row.amount[1] < 0
    THEN Raised(ValueError)
    ELSE [ transaction_date |-> transaction_row.transaction_date,
           amount |-> transaction_row.amount[1],
           donor_declaration |-> donor_declaration ]

----------------------------------------------------------------------------
(* build_output_directory.py: _do_filtering_with_logging *)

_first_table_row_index == 25

\* the number of transactions at which the loop breaks
MaxScheduleTransactions == 1000

TransactionRow(transaction_date, reference, amount, index) ==
    [ transaction_date |-> transaction_date, reference |-> reference,
      amount |-> amount, row_index |-> index ]

\* TransactionRow.cleaned_reference
cleaned_reference(transaction_row) == clean_key(transaction_row.reference)

\* one write() to transactions_log_file: log_prefix (row index and reference),
\* what the message says, the donors it names, and whether it ends in "\n"
LogEntry(index, transaction_row, outcome, donors, newline) ==
    [ row_index |-> index, reference |-> transaction_row.reference,
      outcome |-> outcome, donors |-> donors, newline |-> newline ]

\* one write() to transactions_that_need_manual_handling_log_file
ManualHandlingEntry(xlsx_row_index, index, donors) ==
    [ xlsx_row_index |-> xlsx_row_index, row_index |-> index,
      donors |-> donors, newline |-> TRUE ]

\* variant: the messages of the day-of and after-day results are exchanged
LogNonGiftAidable_messages_exchanged(transaction_gift_aidable_result) ==
    CASE transaction_gift_aidable_result =
             TRANSACTION_OCCURRED_MORE_THAN_FOUR_YEARS_BEFORE_DECLARATION
         -> "occurred_more_than_four_years_before_declaration_date"
      [] transaction_gift_aidable_result =
             DECLARATION_INVALID_FOUR_YEARS_PRECEEDING_DAY_OF_DECLARATION
         -> "occurred_less_than_four_years_before_but_not_covered"
      [] transaction_gift_aidable_result = DECLARATION_INVALID_FOR_DAY_OF_DECLARATION
         -> "occurred_after_declaration_date_but_not_covered"
      [] transaction_gift_aidable_result = DECLARATION_INVALID_AFTER_DAY_OF_DECLARATION
         -> "occurred_on_declaration_date_but_not_covered"
      [] OTHER -> "Exception"

\* _log_non_gift_aidable_transaction_that_has_declaration: what the message
\* written for each result says ("Exception" when the function raises)
_log_non_gift_aidable_transaction_that_has_declaration(transaction_gift_aidable_result) ==
    CASE transaction_gift_aidable_result =
             TRANSACTION_OCCURRED_MORE_THAN_FOUR_YEARS_BEFORE_DECLARATION
         -> "occurred_more_than_four_years_before_declaration_date"
      [] transaction_gift_aidable_result =
             DECLARATION_INVALID_FOUR_YEARS_PRECEEDING_DAY_OF_DECLARATION
         -> "occurred_less_than_four_years_before_but_not_covered"
      [] transaction_gift_aidable_result = DECLARATION_INVALID_FOR_DAY_OF_DECLARATION
         -> "occurred_on_declaration_date_but_not_covered"
      [] transaction_gift_aidable_result = DECLARATION_INVALID_AFTER_DAY_OF_DECLARATION
         -> "occurred_after_declaration_date_but_not_covered"
      [] OTHER -> "Exception"

\* the row the loop is at
CurrentRow == transaction_rows[row_index - 1]

AtRow ==
    /\ pc = "filtering"
    /\ row_index - 1 <= Len(transaction_rows)

\* `transaction_row.amount is None`
AmountIsNone(transaction_row) == IsNone(transaction_row.amount)

\* variant: `transaction_row.amount <= 0`
AmountIsNegative_or_zero(transaction_row) == transaction_row.amount[1] <= 0

\* `transaction_row.amount < 0`
AmountIsNegative(transaction_row) == transaction_row.amount[1] < 0

\* variant: only the first declaration found is kept
MatchingDeclarations_first_only(transaction_row, decls) ==
    LET Matches(d) == StrContains(cleaned_reference(transaction_row), d.identifier)
        found == SelectSeq(decls, Matches)
    IN  IF found = <<>> THEN <<>> ELSE <<found[1]>>

\* [d for d in declarations if d.identifier in transaction_row.cleaned_reference]
MatchingDeclarations(transaction_row, decls) ==
    LET Matches(d) == StrContains(cleaned_reference(transaction_row), d.identifier)
    IN  SelectSeq(decls, Matches)

\* variant: `if len(transactions) > 1000`
EndOfIteration_breaks_above_cap(new_transactions) ==
    IF Len(new_transactions) > MaxScheduleTransactions
    THEN /\ warnings_issued' = Append(warnings_issued, row_index)
         /\ pc' = "returned"
         /\ row_index' = row_index
    ELSE /\ warnings_issued' = warnings_issued
         /\ pc' = pc
         /\ row_index' = row_index + 1

\* `if len(transactions) == 1000: warnings.warn(...); break`, then the next
\* iteration or the return
EndOfIteration(new_transactions) ==
    IF Len(new_transactions) = MaxScheduleTransactions
    THEN /\ warnings_issued' = Append(warnings_issued, row_index)
         /\ pc' = "returned"
         /\ row_index' = row_index
    ELSE /\ warnings_issued' = warnings_issued
         /\ pc' = pc
         /\ row_index' = row_index + 1

\* variant: the new transaction is put at the head of the list
AppendTransaction_at_head(constructed) ==
    IF constructed = Raised(ValueError)
    THEN /\ transactions' = transactions
         /\ pc' = "raised"
         /\ UNCHANGED <<row_index, warnings_issued>>
    ELSE /\ transactions' = <<constructed>> \o transactions
         /\ EndOfIteration(<<constructed>> \o transactions)

\* transactions.append(GiftAidableTransaction.from_transaction_row(...)) and the
\* end of the iteration; a ValueError of the constructor leaves the function
AppendTransaction(constructed) ==
    IF constructed = Raised(ValueError)
    THEN /\ transactions' = transactions
         /\ pc' = "raised"
         /\ UNCHANGED <<row_index, warnings_issued>>
    ELSE /\ transactions' = Append(transactions, constructed)
         /\ EndOfIteration(Append(transactions, constructed))

\* lines 257-261
SkipNoAmount ==
    /\ AtRow
    /\ AmountIsNone(CurrentRow)
    /\ transactions_log' = Append(transactions_log,
           LogEntry(row_index, CurrentRow, "no_associated_amount", <<>>, TRUE))
    /\ row_index' = row_index + 1
    /\ matching_declarations' = None
    /\ transaction_eligability' = None
    /\ UNCHANGED <<transaction_rows, declarations, transactions, manual_handling_log,
                   warnings_issued, pc, harness_vars, program_vars>>

\* lines 262-266
SkipNegativeAmount ==
    /\ AtRow
    /\ ~AmountIsNone(CurrentRow)
    /\ AmountIsNegative(CurrentRow)
    /\ transactions_log' = Append(transactions_log,
           LogEntry(row_index, CurrentRow, "amount_is_negative", <<>>, TRUE))
    /\ row_index' = row_index + 1
    /\ matching_declarations' = None
    /\ transaction_eligability' = None
    /\ UNCHANGED <<transaction_rows, declarations, transactions, manual_handling_log,
                   warnings_issued, pc, harness_vars, program_vars>>

ReachesMatching ==
    /\ AtRow
    /\ ~AmountIsNone(CurrentRow)
    /\ ~AmountIsNegative(CurrentRow)

\* variant: the unmatched row is passed over without a log write
NotGiftAidable_unlogged ==
    /\ ReachesMatching
    /\ LET matching == MatchingDeclarations(CurrentRow, declarations) IN
       /\ Len(matching) = 0
       /\ matching_declarations' = Some(matching)
       /\ transaction_eligability' = None
       /\ EndOfIteration(transactions)
    /\ UNCHANGED <<transaction_rows, declarations, transactions, transactions_log,
                   manual_handling_log, harness_vars, program_vars>>

\* lines 268-274, 324-332
NotGiftAidable ==
    /\ ReachesMatching
    /\ LET matching == MatchingDeclarations(CurrentRow, declarations) IN
       /\ Len(matching) = 0
       /\ matching_declarations' = Some(matching)
       /\ transaction_eligability' = None
       /\ transactions_log' = Append(transactions_log,
              LogEntry(row_index, CurrentRow, "not_detected_as_gift_aidable", <<>>, TRUE))
       /\ EndOfIteration(transactions)
    /\ UNCHANGED <<transaction_rows, declarations, transactions, manual_handling_log,
                   harness_vars, program_vars>>

\* variant: the log entry of an accepted row is put before the earlier entries
AcceptTransaction_log_entry_first ==
    /\ ReachesMatching
    /\ LET matching == MatchingDeclarations(CurrentRow, declarations) IN
       /\ Len(matching) = 1
       /\ LET declaration == matching[1]
              result == _determine_whether_transaction_gift_aidable_for_declaration(
                            CurrentRow, declaration)
          IN  /\ result = IS_GIFT_AIDABLE
              /\ matching_declarations' = Some(matching)
              /\ transaction_eligability' = Some(result)
              /\ transactions_log' =
                     <<LogEntry(row_index, CurrentRow, "detected_as_gift_aidable",
                                <<donor_name(declaration)>>, TRUE)>> \o transactions_log
              /\ AppendTransaction(GiftAidableTransaction_from_transaction_row(
                                       CurrentRow, Some(declaration)))
    /\ UNCHANGED <<transaction_rows, declarations, manual_handling_log, harness_vars, program_vars>>

\* lines 268-294, 324-332
AcceptTransaction ==
    /\ ReachesMatching
    /\ LET matching == MatchingDeclarations(CurrentRow, declarations) IN
       /\ Len(matching) = 1
       /\ LET declaration == matching[1]
              result == _determine_whether_transaction_gift_aidable_for_declaration(
                            CurrentRow, declaration)
          IN  /\ result = IS_GIFT_AIDABLE
              /\ matching_declarations' = Some(matching)
              /\ transaction_eligability' = Some(result)
              /\ transactions_log' = Append(transactions_log,
                     LogEntry(row_index, CurrentRow, "detected_as_gift_aidable",
                              <<donor_name(declaration)>>, TRUE))
              /\ AppendTransaction(GiftAidableTransaction_from_transaction_row(
                                       CurrentRow, Some(declaration)))
    /\ UNCHANGED <<transaction_rows, declarations, manual_handling_log, harness_vars, program_vars>>

\* lines 268-283, 295-302 with _log_non_gift_aidable_transaction_that_has_declaration
\* (193-244, whose writes do not end in "\n"), 324-332
ExcludeDeclaredTransaction ==
    /\ ReachesMatching
    /\ LET matching == MatchingDeclarations(CurrentRow, declarations) IN
       /\ Len(matching) = 1
       /\ LET declaration == matching[1]
              result == _determine_whether_transaction_gift_aidable_for_declaration(
                            CurrentRow, declaration)
          IN  /\ result \in TransactionEligability \ {IS_GIFT_AIDABLE}
              /\ matching_declarations' = Some(matching)
              /\ transaction_eligability' = Some(result)
              /\ transactions_log' = Append(transactions_log,
                     LogEntry(row_index, CurrentRow,
                              _log_non_gift_aidable_transaction_that_has_declaration(result),
                              <<donor_name(declaration)>>, FALSE))
              /\ EndOfIteration(transactions)
    /\ UNCHANGED <<transaction_rows, declarations, transactions, manual_handling_log,
                   harness_vars, program_vars>>

\* lines 268-283 when declaration_date.replace raises: the ValueError leaves
\* _do_filtering_with_logging, nothing is written for the row
EligabilityCheckRaises ==
    /\ ReachesMatching
    /\ LET matching == MatchingDeclarations(CurrentRow, declarations) IN
       /\ Len(matching) = 1
       /\ _determine_whether_transaction_gift_aidable_for_declaration(
              CurrentRow, matching[1]) = ValueError
       /\ matching_declarations' = Some(matching)
       /\ transaction_eligability' = None
       /\ pc' = "raised"
    /\ UNCHANGED <<transaction_rows, declarations, row_index, transactions,
                   transactions_log, manual_handling_log, warnings_issued, harness_vars, program_vars>>

\* lines 268-270, 303-332
AmbiguousTransaction ==
    /\ ReachesMatching
    /\ LET matching == MatchingDeclarations(CurrentRow, declarations) IN
       /\ Len(matching) > 1
       /\ LET possible_donors_summary == [i \in 1..Len(matching) |-> donor_name(matching[i])]
              xlsx_row_index == _first_table_row_index + row_index - 2
          IN  /\ matching_declarations' = Some(matching)
              /\ transaction_eligability' = None
              /\ transactions_log' = Append(transactions_log,
                     LogEntry(row_index, CurrentRow, "multiple_possible_donors",
                              possible_donors_summary, TRUE))
              /\ manual_handling_log' = Append(manual_handling_log,
                     ManualHandlingEntry(xlsx_row_index, row_index, possible_donors_summary))
              /\ AppendTransaction(GiftAidableTransaction_from_transaction_row(
                                       CurrentRow, None))
    /\ UNCHANGED <<transaction_rows, declarations, harness_vars, program_vars>>

\* the for loop is exhausted: line 333
ReturnTransactions ==
    /\ pc = "filtering"
    /\ row_index - 1 > Len(transaction_rows)
    /\ pc' = "returned"
    /\ UNCHANGED <<transaction_rows, declarations, row_index, transactions,
                   transactions_log, manual_handling_log, matching_declarations,
                   transaction_eligability, warnings_issued, harness_vars, program_vars>>

----------------------------------------------------------------------------
(* build_output_directory.py: _write_transactions_to_output_workbook *)

\* the worksheet cells the function fills: D13 and, counting from row 25, one
\* table row per transaction in list order; nothing is written for an empty list
_write_transactions_to_output_workbook(gift_aidable_transactions) ==
    IF Len(gift_aidable_transactions) = 0
    THEN [ D13 |-> None, table |-> <<>>, saved |-> FALSE ]
    ELSE [ D13 |-> Some(gift_aidable_transactions[1].transaction_date),
           table |-> [ xlsx_row \in _first_table_row_index ..
                                    (_first_table_row_index + Len(gift_aidable_transactions) - 1)
                         |-> gift_aidable_transactions[xlsx_row - _first_table_row_index + 1] ],
           saved |-> TRUE ]

----------------------------------------------------------------------------
(* logic/parsing/parse_transactions_csv.py: amounts and TransactionRow.from_row *)

\* the character U+2212 ("true minus"), written as one character of a string
TrueMinus == "U+2212"

IsAmountCharacter(c) == c \in Digits \cup {"-", "."}

\* variant: the true minus is dropped with the other characters
CleanAmountString_true_minus_dropped(amount_string) == SelectSeq(amount_string, IsAmountCharacter)

\* _clean_amount_string: replace("\u2212", "-"), then drop [^\d\-\.]
_clean_amount_string(amount_string) ==
    SelectSeq([i \in 1..Len(amount_string) |->
                  IF amount_string[i] = TrueMinus THEN "-" ELSE amount_string[i]],
              IsAmountCharacter)

InvalidOperation == "InvalidOperation"

IsDigit(c) == c \in Digits

\* decimal.Decimal(str) for a string of digits, "-" and ".": the value as sign,
\* coefficient and number of decimal places, or InvalidOperation raised
Decimal(value) ==
    LET negative == value # <<>> /\ value[1] = "-"
        unsigned == IF negative THEN Tail(value) ELSE value
        points == {i \in 1..Len(unsigned) : unsigned[i] = "."}
        digits == SelectSeq(unsigned, IsDigit)
    IN  IF \/ \E i \in 1..Len(unsigned) : unsigned[i] = "-"
           \/ Cardinality(points) > 1
           \/ digits = <<>>
        THEN Raised(InvalidOperation)
        ELSE [ negative |-> negative,
               coefficient |-> DecimalValue(digits),
               places |-> IF points = {} THEN 0
                          ELSE Len(unsigned) - (CHOOSE i \in points : TRUE) ]

\* _parse_transaction_amount: Returned(None) when the cleaned string has no
\* digit, Returned(Some(decimal)), or InvalidOperation raised
_parse_transaction_amount(amount_string) ==
    LET cleaned_amount_string == _clean_amount_string(amount_string) IN
    IF ~(\E i \in 1..Len(cleaned_amount_string) : IsDigit(cleaned_amount_string[i]))
    THEN Returned(None)
    ELSE IF Decimal(cleaned_amount_string) = Raised(InvalidOperation)
         THEN Raised(InvalidOperation)
         ELSE Returned(Some(Decimal(cleaned_amount_string)))

\* TransactionRowParsingError, a RowParsingError
TransactionRowParsingError(column_number) == RowParsingError(column_number)

\* variant: the amount is parsed before the date
TransactionRow_from_row_amount_first(row, index) ==
    IF Len(row) # 3 THEN TransactionRowParsingError(None)
    ELSE IF _parse_transaction_amount(row[3]) = Raised(InvalidOperation)
         THEN TransactionRowParsingError(Some(3))
    ELSE IF IsNone(parse_uk_formatted_date(Strip(row[1])))
         THEN TransactionRowParsingError(Some(1))
    ELSE Returned(TransactionRow(parse_uk_formatted_date(Strip(row[1]))[1], row[2],
                                 _parse_transaction_amount(row[3]).value[1], index))

\* TransactionRow.from_row
TransactionRow_from_row(row, index) ==
    IF Len(row) # 3 THEN TransactionRowParsingError(None)
    ELSE IF IsNone(parse_uk_formatted_date(Strip(row[1])))
         THEN TransactionRowParsingError(Some(1))
    ELSE IF _parse_transaction_amount(row[3]) = Raised(InvalidOperation)
         THEN TransactionRowParsingError(Some(3))
    ELSE Returned(TransactionRow(parse_uk_formatted_date(Strip(row[1]))[1], row[2],
                                 _parse_transaction_amount(row[3]).value[1], index))

----------------------------------------------------------------------------
(* build_output_directory.py: the run directory *)

\* "output_"
OutputPrefix == <<"o", "u", "t", "p", "u", "t", "_">>

\* str.startswith
StartsWith(s, prefix) == Len(s) >= Len(prefix) /\ SubSeq(s, 1, Len(prefix)) = prefix

\* f"output_{date_stamp}"
directory_base_name(stamp) == OutputPrefix \o stamp

\* str(n) for n >= 0
RECURSIVE IntString(_)
IntString(n) ==
    LET last == <<CHOOSE c \in Digits : DigitValue(c) = n % 10>>
    IN  IF n < 10 THEN last ELSE IntString(n \div 10) \o last

\* _output_file_name_regex.match(fn), the pattern being
\* output_\d{4}-\d{2}-\d{2}_\((\d+)\): Some(int(match.group(1))), or None
OutputFileNameNumber(file_name) ==
    LET Digit(i) == i <= Len(file_name) /\ file_name[i] \in Digits
        Is(i, c) == i <= Len(file_name) /\ file_name[i] = c
        ends == {k \in 20..Len(file_name) : (\A i \in 20..k : Digit(i)) /\ Is(k + 1, ")")}
    IN  IF /\ StartsWith(file_name, OutputPrefix)
           /\ \A i \in {8, 9, 10, 11, 13, 14, 16, 17} : Digit(i)
           /\ Is(12, "-") /\ Is(15, "-") /\ Is(18, "_") /\ Is(19, "(")
           /\ ends # {}
        THEN Some(DecimalValue(SubSeq(file_name, 20, CHOOSE k \in ends : TRUE)))
        ELSE None

Maximum(S) == CHOOSE n \in S : \A m \in S : m <= n

\* variant: the next number is one more than the count of numbered directories
DetermineOutputDirectory_counts_directories(entries, stamp) ==
    LET existing_output_directories ==
            {d \in entries : StartsWith(d, directory_base_name(stamp))}
        output_directories_numbers ==
            {OutputFileNameNumber(d)[1] :
                 d \in {e \in existing_output_directories : OutputFileNameNumber(e) # None}}
        next_directory_number == Cardinality(output_directories_numbers) + 1
    IN  IF directory_base_name(stamp) \notin existing_output_directories
        THEN directory_base_name(stamp)
        ELSE directory_base_name(stamp) \o <<"_", "(">>
                 \o IntString(next_directory_number) \o <<")">>

\* _determine_output_directory: the name of the directory to use, given the
\* names in the outputs directory and date.today().isoformat()
_determine_output_directory(entries, stamp) ==
    LET existing_output_directories ==
            {d \in entries : StartsWith(d, directory_base_name(stamp))}
        output_directories_numbers ==
            {OutputFileNameNumber(d)[1] :
                 d \in {e \in existing_output_directories : OutputFileNameNumber(e) # None}}
        next_directory_number ==
            IF output_directories_numbers # {}
            THEN Maximum(output_directories_numbers) + 1
            ELSE 1
    IN  IF directory_base_name(stamp) \notin existing_output_directories
        THEN directory_base_name(stamp)
        ELSE directory_base_name(stamp) \o <<"_", "(">>
                 \o IntString(next_directory_number) \o <<")">>


----------------------------------------------------------------------------
(* parse_transactions_csv.py and parse_declarations_csv.py: the files *)

\* parse_transactions_csv._check_header_row: ["date", "reference", "amount"]
transactions_expected_header_row ==
    << <<"d", "a", "t", "e">>,
       <<"r", "e", "f", "e", "r", "e", "n", "c", "e">>,
       <<"a", "m", "o", "u", "n", "t">> >>

\* parse_declarations_csv._check_header_row: the ten expected column names
expected_header_row ==
    << <<"T", "i", "t", "l", "e">>,
       <<"F", "i", "r", "s", "t", " ", "N", "a", "m", "e">>,
       <<"L", "a", "s", "t", " ", "N", "a", "m", "e">>,
       <<"H", "o", "u", "s", "e", " ", "N", "u", "m", "b", "e", "r", " ", "o",
         "r", " ", "N", "a", "m", "e">>,
       <<"P", "o", "s", "t", "c", "o", "d", "e">>,
       <<"D", "a", "t", "e">>,
       <<"V", "a", "l", "i", "d", " ", "F", "o", "u", "r", " ", "Y", "e", "a",
         "r", "s", " ", "B", "e", "f", "o", "r", "e", " ", "D", "a", "y", " ",
         "o", "f", " ", "D", "e", "c", "l", "a", "r", "a", "t", "i", "o", "n">>,
       <<"V", "a", "l", "i", "d", " ", "D", "a", "y", " ", "o", "f", " ", "D",
         "e", "c", "l", "a", "r", "a", "t", "i", "o", "n">>,
       <<"V", "a", "l", "i", "d", " ", "A", "f", "t", "e", "r", " ", "D", "a",
         "y", " ", "o", "f", " ", "D", "e", "c", "l", "a", "r", "a", "t", "i",
         "o", "n">>,
       <<"I", "d", "e", "n", "t", "i", "f", "i", "e", "r">> >>

TransactionsFileParsingError == "TransactionsFileParsingError"

DeclarationsFileParsingError == "DeclarationsFileParsingError"

\* a csv file: the header row as readline().strip().split(",") gives it, and
\* the rows after it as csv.reader gives them
CsvFile(header_row, rows) == Some([header_row |-> header_row, rows |-> rows])

\* variant: the header names are compared as they are written
CheckHeaderRow_case_sensitive(header_row) ==
    /\ Len(header_row) = 3
    /\ [i \in 1..3 |-> Strip(header_row[i])] = transactions_expected_header_row

\* parse_transactions_csv._check_header_row: TRUE when it returns, FALSE when it raises
transactions_check_header_row(header_row) ==
    /\ Len(header_row) = 3
    /\ [i \in 1..3 |-> Lower(Strip(header_row[i]))] =
           transactions_expected_header_row

\* parse_declarations_csv._check_header_row: TRUE when it returns, FALSE when it raises
declarations_check_header_row(header_row) ==
    /\ Len(header_row) = 10
    /\ [i \in 1..10 |-> Lower(Strip(header_row[i]))] =
           [i \in 1..10 |-> Lower(expected_header_row[i])]

\* the note parse_..._file adds to the error from_row raised:
\* f"Error parsing row {row_index}, column {e.column_number} of {file name}."
ErrorParsingRowNote(file_row, column_number, file_name) ==
    [row |-> file_row, column |-> column_number, file_name |-> file_name]

\* a parse_..._file call that raised: the exception class, the column number it
\* carries, the file row the loop was at, and the notes added to it (__notes__)
FileParsingFailure(exception_class, column_number, file_row, notes) ==
    [ ok |-> FALSE, value |-> None, exception |-> exception_class,
      column_number |-> column_number, row_index |-> file_row, notes |-> notes ]

\* variant: the loop goes on after a row that raised
FirstFailureOrRows_last_failure(results) ==
    LET failures == {i \in 1..Len(results) : ~results[i].ok} IN
    IF failures = {}
    THEN Returned([i \in 1..Len(results) |-> results[i].value[1]])
    ELSE results[CHOOSE i \in failures : \A j \in failures : j <= i]

\* the loop over the rows of a file ends with the first row that raised, or
\* with the list of the parsed rows
FirstFailureOrRows(results) ==
    LET failures == {i \in 1..Len(results) : ~results[i].ok} IN
    IF failures = {}
    THEN Returned([i \in 1..Len(results) |-> results[i].value[1]])
    ELSE results[CHOOSE i \in failures : \A j \in failures : i <= j]

\* parse_transactions_file: the file is checked, then each row after the header
\* is checked for its length and handed to TransactionRow.from_row with its
\* row index, a note being added to the error from_row raises
parse_transactions_file(file) ==
    IF file = None
    THEN FileParsingFailure(TransactionsFileParsingError, None, None, <<>>)
    ELSE IF ~transactions_check_header_row(file[1].header_row)
    THEN FileParsingFailure(TransactionsFileParsingError, None, None, <<>>)
    ELSE FirstFailureOrRows(
             [i \in 1..Len(file[1].rows) |->
                 IF Len(file[1].rows[i]) # 3
                 THEN FileParsingFailure("TransactionRowParsingError", None, Some(i + 1), <<>>)
                 ELSE IF TransactionRow_from_row(file[1].rows[i], i + 1).ok
                 THEN TransactionRow_from_row(file[1].rows[i], i + 1)
                 ELSE FileParsingFailure("TransactionRowParsingError",
                          TransactionRow_from_row(file[1].rows[i], i + 1).column_number,
                          Some(i + 1),
                          <<ErrorParsingRowNote(i + 1,
                                TransactionRow_from_row(file[1].rows[i], i + 1).column_number,
                                "transactions.csv")>>)])

\* parse_declarations_file: the same with ten fields and DeclarationRow.from_row
parse_declarations_file(file) ==
    IF file = None
    THEN FileParsingFailure(DeclarationsFileParsingError, None, None, <<>>)
    ELSE IF ~declarations_check_header_row(file[1].header_row)
    THEN FileParsingFailure(DeclarationsFileParsingError, None, None, <<>>)
    ELSE FirstFailureOrRows(
             [i \in 1..Len(file[1].rows) |->
                 IF Len(file[1].rows[i]) # 10
                 THEN FileParsingFailure("DeclarationRowParsingError", None, Some(i + 1), <<>>)
                 ELSE IF DeclarationRow_from_row(file[1].rows[i]).ok
                 THEN DeclarationRow_from_row(file[1].rows[i])
                 ELSE FileParsingFailure("DeclarationRowParsingError",
                          DeclarationRow_from_row(file[1].rows[i]).column_number,
                          Some(i + 1),
                          <<ErrorParsingRowNote(i + 1,
                                DeclarationRow_from_row(file[1].rows[i]).column_number,
                                "declarations.csv")>>)])

----------------------------------------------------------------------------
(* gift_aid_schedule_builder.py: main, and build_output_directory.py:         *)
(* build_output_directory with the functions it calls                        *)

\* the locals and log files of _do_filtering_with_logging
filtering_locals == <<row_index, transactions, transactions_log, manual_handling_log,
                      matching_declarations, transaction_eligability, warnings_issued, pc>>

\* what the process reads and never writes
environment_vars == <<date_stamp, template, transactions_file, declarations_file>>

history_vars == <<run_number, allocated, interferences>>

\* an exception nothing catches ends the process
Raise(exception_class) ==
    /\ uncaught_exception' = Some(exception_class)
    /\ main_pc' = "raised"

\* variant: the run directory is created before the transactions file is read
Main_ParseTransactionsFile_directory_first ==
    /\ main_pc = "main"
    /\ LET parsed == parse_transactions_file(transactions_file)
           name == _determine_output_directory(outputs_directory, date_stamp)
       IN  /\ _output_directory' = Some(name)
           /\ outputs_directory' = outputs_directory \cup {name}
           /\ allocated' = Append(allocated, name)
           /\ mkdir_calls' = Append(mkdir_calls, [name |-> name, created |-> TRUE])
           /\ IF parsed.ok
              THEN /\ transaction_rows' = parsed.value[1]
                   /\ main_pc' = "main:parse_declarations_file"
                   /\ UNCHANGED uncaught_exception
              ELSE /\ Raise(parsed.exception)
                   /\ UNCHANGED transaction_rows
    /\ UNCHANGED <<declarations, filtering_locals, harness_vars, output_files,
                   environment_vars, worksheet, call_site, get_output_directory_calls,
                   run_number, interferences>>

\* main, line 27: transaction_rows = parse_transactions_csv.parse_transactions_file()
Main_ParseTransactionsFile ==
    /\ main_pc = "main"
    /\ LET parsed == parse_transactions_file(transactions_file) IN
       IF parsed.ok
       THEN /\ transaction_rows' = parsed.value[1]
            /\ main_pc' = "main:parse_declarations_file"
            /\ UNCHANGED uncaught_exception
       ELSE /\ Raise(parsed.exception)
            /\ UNCHANGED transaction_rows
    /\ UNCHANGED <<declarations, filtering_locals, harness_vars, outputs_directory,
                   output_files, _output_directory, environment_vars, worksheet,
                   call_site, get_output_directory_calls, mkdir_calls, history_vars>>

\* main, lines 28-31: the declarations of the rows of parse_declarations_file()
Main_ParseDeclarationsFile ==
    /\ main_pc = "main:parse_declarations_file"
    /\ LET parsed == parse_declarations_file(declarations_file) IN
       IF parsed.ok
       THEN /\ declarations' = [i \in 1..Len(parsed.value[1]) |->
                                   DonorDeclaration_from_declaration_row(parsed.value[1][i])]
            /\ main_pc' = "main:build_output_directory"
            /\ UNCHANGED uncaught_exception
       ELSE /\ Raise(parsed.exception)
            /\ UNCHANGED declarations
    /\ UNCHANGED <<transaction_rows, filtering_locals, harness_vars, outputs_directory,
                   output_files, _output_directory, environment_vars, worksheet,
                   call_site, get_output_directory_calls, mkdir_calls, history_vars>>

\* the parameters of build_output_directory
build_output_directory_parameters == <<"transaction_rows", "declarations">>

\* the positional arguments of main's call of it
main_call_arguments == <<"transaction_rows", "declarations", "spreadsheet_type">>

\* main, lines 32-36: the call binds its arguments to the parameters, or TypeError
Main_CallBuildOutputDirectory ==
    /\ main_pc = "main:build_output_directory"
    /\ IF Len(main_call_arguments) = Len(build_output_directory_parameters)
       THEN /\ main_pc' = "build_output_directory:start"
            /\ UNCHANGED uncaught_exception
       ELSE Raise("TypeError")
    /\ UNCHANGED <<pipeline_vars, harness_vars, outputs_directory, output_files,
                   _output_directory, environment_vars, worksheet, call_site,
                   get_output_directory_calls, mkdir_calls, history_vars>>

\* build_output_directory line 411 calls _create_output_file, which calls
\* _get_output_directory (line 72)
CreateOutputFile_GetOutputDirectory ==
    /\ main_pc = "build_output_directory:start"
    /\ main_pc' = "_get_output_directory"
    /\ call_site' = "_create_output_file"
    /\ UNCHANGED <<pipeline_vars, harness_vars, outputs_directory, output_files,
                   _output_directory, environment_vars, worksheet, uncaught_exception,
                   get_output_directory_calls, mkdir_calls, history_vars>>

\* build_output_directory line 424 calls _filter_gift_aidable_transactions, which
\* calls _get_output_directory (line 340)
FilterGiftAidableTransactions_GetOutputDirectory ==
    /\ main_pc = "build_output_directory:filter"
    /\ main_pc' = "_get_output_directory"
    /\ call_site' = "_filter_gift_aidable_transactions"
    /\ UNCHANGED <<pipeline_vars, harness_vars, outputs_directory, output_files,
                   _output_directory, environment_vars, worksheet, uncaught_exception,
                   get_output_directory_calls, mkdir_calls, history_vars>>

\* build_output_directory line 441 calls _get_output_directory
BuildOutputDirectory_GetOutputDirectory ==
    /\ main_pc = "build_output_directory:copy"
    /\ main_pc' = "_get_output_directory"
    /\ call_site' = "build_output_directory"
    /\ UNCHANGED <<pipeline_vars, harness_vars, outputs_directory, output_files,
                   _output_directory, environment_vars, worksheet, uncaught_exception,
                   get_output_directory_calls, mkdir_calls, history_vars>>

\* variant: the directory is determined on every call
GetOutputDirectory_Determine_on_every_call ==
    /\ main_pc = "_get_output_directory"
    /\ _output_directory' = Some(_determine_output_directory(outputs_directory, date_stamp))
    /\ main_pc' = "mkdir"
    /\ UNCHANGED <<pipeline_vars, harness_vars, outputs_directory, output_files,
                   environment_vars, worksheet, call_site, uncaught_exception,
                   get_output_directory_calls, mkdir_calls, history_vars>>

\* _get_output_directory lines 64-65: the global is None, so it is assigned
GetOutputDirectory_Determine ==
    /\ main_pc = "_get_output_directory"
    /\ _output_directory = None
    /\ _output_directory' = Some(_determine_output_directory(outputs_directory, date_stamp))
    /\ main_pc' = "mkdir"
    /\ UNCHANGED <<pipeline_vars, harness_vars, outputs_directory, output_files,
                   environment_vars, worksheet, call_site, uncaught_exception,
                   get_output_directory_calls, mkdir_calls, history_vars>>

\* variant: mkdir(exist_ok=True)
GetOutputDirectory_Mkdir_exist_ok ==
    /\ main_pc = "mkdir"
    /\ LET name == _output_directory[1] IN
       /\ outputs_directory' = outputs_directory \cup {name}
       /\ mkdir_calls' = Append(mkdir_calls,
              [name |-> name, created |-> name \notin outputs_directory])
       /\ allocated' = Append(allocated, name)
       /\ get_output_directory_calls' = Append(get_output_directory_calls,
              [caller |-> call_site, returned |-> name])
       /\ main_pc' = call_site
       /\ UNCHANGED uncaught_exception
    /\ UNCHANGED <<pipeline_vars, harness_vars, output_files, _output_directory,
                   environment_vars, worksheet, call_site, run_number, interferences>>

\* _get_output_directory lines 66-67: _output_directory.mkdir() creates the
\* directory or raises FileExistsError; then the path is returned
GetOutputDirectory_Mkdir ==
    /\ main_pc = "mkdir"
    /\ LET name == _output_directory[1] IN
       IF name \in outputs_directory
       THEN /\ mkdir_calls' = Append(mkdir_calls, [name |-> name, created |-> FALSE])
            /\ Raise("FileExistsError")
            /\ UNCHANGED <<outputs_directory, allocated, get_output_directory_calls>>
       ELSE /\ outputs_directory' = outputs_directory \cup {name}
            /\ mkdir_calls' = Append(mkdir_calls, [name |-> name, created |-> TRUE])
            /\ allocated' = Append(allocated, name)
            /\ get_output_directory_calls' = Append(get_output_directory_calls,
                   [caller |-> call_site, returned |-> name])
            /\ main_pc' = call_site
            /\ UNCHANGED uncaught_exception
    /\ UNCHANGED <<pipeline_vars, harness_vars, output_files, _output_directory,
                   environment_vars, worksheet, call_site, run_number, interferences>>

\* _get_output_directory line 67 when the global is already set
GetOutputDirectory_Cached ==
    /\ main_pc = "_get_output_directory"
    /\ _output_directory # None
    /\ get_output_directory_calls' = Append(get_output_directory_calls,
           [caller |-> call_site, returned |-> _output_directory[1]])
    /\ main_pc' = call_site
    /\ UNCHANGED <<pipeline_vars, harness_vars, outputs_directory, output_files,
                   _output_directory, environment_vars, worksheet, call_site,
                   uncaught_exception, mkdir_calls, history_vars>>

\* the path the call just made returned
output_directory == Last(get_output_directory_calls).returned

\* _create_output_file lines 73-78: shutil.copy of the template
CreateOutputFile_Copy ==
    /\ main_pc = "_create_output_file"
    /\ IF template = "missing"
       THEN /\ Raise("FileNotFoundError")
            /\ UNCHANGED output_files
       ELSE /\ output_files' = output_files \cup
                   {<<output_directory, "gift_aid_schedule__libre_.xlsx">>}
            /\ main_pc' = "build_output_directory:check"
            /\ UNCHANGED uncaught_exception
    /\ UNCHANGED <<pipeline_vars, harness_vars, outputs_directory, _output_directory,
                   environment_vars, worksheet, call_site, get_output_directory_calls,
                   mkdir_calls, history_vars>>

\* build_output_directory lines 413-418: load_workbook and _check_output_workbook
CheckOutputWorkbook ==
    /\ main_pc = "build_output_directory:check"
    /\ IF template = "malformed"
       THEN Raise("MalformedXlsxError")
       ELSE /\ main_pc' = "build_output_directory:filter"
            /\ UNCHANGED uncaught_exception
    /\ UNCHANGED <<pipeline_vars, harness_vars, outputs_directory, output_files,
                   _output_directory, environment_vars, worksheet, call_site,
                   get_output_directory_calls, mkdir_calls, history_vars>>

LogFileNames == {"transactions_log.txt", "transactions_that_need_manual_handling.txt"}

\* _filter_gift_aidable_transactions lines 341-355: both log files are opened
\* with mode "x" and _do_filtering_with_logging is entered
FilterGiftAidableTransactions_OpenLogs ==
    /\ main_pc = "_filter_gift_aidable_transactions"
    /\ IF \E f \in LogFileNames : <<output_directory, f>> \in output_files
       THEN /\ Raise("FileExistsError")
            /\ UNCHANGED <<output_files, filtering_locals>>
       ELSE /\ output_files' = output_files \cup {<<output_directory, f>> : f \in LogFileNames}
            /\ main_pc' = "_do_filtering_with_logging"
            /\ row_index' = 2
            /\ transactions' = <<>>
            /\ transactions_log' = <<>>
            /\ manual_handling_log' = <<>>
            /\ matching_declarations' = None
            /\ transaction_eligability' = None
            /\ warnings_issued' = <<>>
            /\ pc' = "filtering"
            /\ UNCHANGED uncaught_exception
    /\ UNCHANGED <<transaction_rows, declarations, harness_vars, outputs_directory,
                   _output_directory, environment_vars, worksheet, call_site,
                   get_output_directory_calls, mkdir_calls, history_vars>>

\* an exception raised inside _do_filtering_with_logging is not caught
FilteringRaised ==
    /\ main_pc = "_do_filtering_with_logging"
    /\ pc = "raised"
    /\ Raise(ValueError)
    /\ UNCHANGED <<pipeline_vars, harness_vars, outputs_directory, output_files,
                   _output_directory, environment_vars, worksheet, call_site,
                   get_output_directory_calls, mkdir_calls, history_vars>>

\* build_output_directory lines 431-435
WriteTransactionsToOutputWorkbook ==
    /\ main_pc = "_do_filtering_with_logging"
    /\ pc = "returned"
    /\ worksheet' = Some(_write_transactions_to_output_workbook(transactions))
    /\ main_pc' = "build_output_directory:copy"
    /\ UNCHANGED <<pipeline_vars, harness_vars, outputs_directory, output_files,
                   _output_directory, environment_vars, call_site, uncaught_exception,
                   get_output_directory_calls, mkdir_calls, history_vars>>

\* build_output_directory lines 442-449: transactions.csv, then declarations.csv
CopyAncillaryFiles ==
    /\ main_pc = "build_output_directory"
    /\ IF transactions_file = None
       THEN /\ Raise("FileNotFoundError")
            /\ UNCHANGED output_files
       ELSE IF declarations_file = None
       THEN /\ Raise("FileNotFoundError")
            /\ output_files' = output_files \cup {<<output_directory, "transactions.csv">>}
       ELSE /\ output_files' = output_files \cup
                   {<<output_directory, "transactions.csv">>,
                    <<output_directory, "declarations.csv">>}
            /\ main_pc' = "done"
            /\ UNCHANGED uncaught_exception
    /\ UNCHANGED <<pipeline_vars, harness_vars, outputs_directory, _output_directory,
                   environment_vars, worksheet, call_site, get_output_directory_calls,
                   mkdir_calls, history_vars>>

----------------------------------------------------------------------------
(* Inputs of the filtering runs *)

\* longest transactions list and declarations list of Spec
MaxTransactionRows == 2

MaxDeclarations == 2

\* a line of declarations.csv as csv.reader yields it
RawDeclarationRow(title, first_name, last_name, house, postcode, date_string, four_years, day_of, after, identifier) ==
    <<title, first_name, last_name, house, postcode, date_string,
      four_years, day_of, after, identifier>>

Postcode_B12_8QX == <<"b", "1", "2", "8", "q", "x">>

Date_8_10_1993 == <<"8", "/", "1", "0", "/", "1", "9", "9", "3">>

Date_08_10_93 == <<"0", "8", "/", "1", "0", "/", "9", "3">>

Date_29_2_1904 == <<"2", "9", "/", "2", "/", "1", "9", "0", "4">>

Date_1993_10_08_hyphens == <<"1", "9", "9", "3", "-", "1", "0", "-", "0", "8">>

\* declarations.csv lines: all bands covered, identifier "A-b"
RawDeclaration_Ab ==
    RawDeclarationRow(<<"M", "r">>, <<"A">>, <<"B">>, <<"1">>, Postcode_B12_8QX,
                      Date_8_10_1993, <<"1">>, <<"1">>, <<"1">>, <<"A", "-", "b">>)

\* no band covered, no title, identifier " b"
RawDeclaration_b ==
    RawDeclarationRow(<<>>, <<"C">>, <<"D">>, <<"2">>, <<"X">>,
                      Date_8_10_1993, <<"0">>, <<"0">>, <<"0">>, <<" ", "b">>)

\* an identifier without letters
RawDeclaration_12 ==
    RawDeclarationRow(<<"M", "s">>, <<"E">>, <<"F">>, <<"3">>, Postcode_B12_8QX,
                      Date_08_10_93, <<"1">>, <<"1">>, <<"1">>, <<"1", "2">>)

\* a leap-day declaration of 1904
RawDeclaration_c ==
    RawDeclarationRow(<<"D", "r">>, <<"G">>, <<"H">>, <<"4">>, <<"x">>,
                      Date_29_2_1904, <<"1">>, <<"1">>, <<"1">>, <<"c">>)

RawDeclarationPool ==
    {RawDeclaration_Ab, RawDeclaration_b, RawDeclaration_12, RawDeclaration_c}

\* main(): one declaration, for a line that DeclarationRow.from_row accepts
DeclarationOf(raw) ==
    DonorDeclaration_from_declaration_row(DeclarationRow_from_row(raw).value[1])

\* main(): [DonorDeclaration.from_declaration_row(dr) for dr in parse_declarations_file()],
\* for the lines that DeclarationRow.from_row accepts
DeclarationPool ==
    {DeclarationOf(raw) : raw \in {r \in RawDeclarationPool : DeclarationRow_from_row(r).ok}}

Ref_Ab_1 == <<"A", "b", " ", "1">>

Ref_b == <<"b", "!">>

Ref_C == <<"C">>

Ref_9 == <<"9">>

\* parsed transactions (date, reference, amount in pence), before their row index is known
ParsedTransactionPool ==
    { <<Date(1993, 10, 9), Ref_Ab_1, Some(500)>>,
      <<Date(1989, 10, 7), Ref_Ab_1, Some(500)>>,
      <<Date(1993, 10, 8), Ref_b, Some(1200)>>,
      <<Date(1990, 1, 1), Ref_b, Some(500)>>,
      <<Date(1993, 10, 9), Ref_b, Some(500)>>,
      <<Date(1993, 10, 9), Ref_C, Some(500)>>,
      <<Date(1993, 10, 9), Ref_9, Some(500)>>,
      <<Date(1993, 10, 9), Ref_Ab_1, Some(0)>>,
      <<Date(1993, 10, 9), Ref_Ab_1, None>>,
      <<Date(1993, 10, 9), Ref_b, Some(-1)>>,
      <<Date(1993, 10, 9), Ref_Ab_1, Some(-500)>> }

SeqsUpTo(S, n) == UNION {[1..k -> S] : k \in 0..n}

\* parse_transactions_file: the i-th data line is row i + 1 of the file
WithRowIndexes(parsed) ==
    [i \in 1..Len(parsed) |->
        TransactionRow(parsed[i][1], parsed[i][2], parsed[i][3], i + 1)]

\* no process of the program is modelled: the function under study is called directly
OutsideProgramRun ==
    /\ outputs_directory = {}
    /\ output_files = {}
    /\ _output_directory = None
    /\ date_stamp = <<>>
    /\ template = "valid"
    /\ transactions_file = None
    /\ declarations_file = None
    /\ worksheet = None
    /\ main_pc = "none"
    /\ call_site = "none"
    /\ uncaught_exception = None
    /\ get_output_directory_calls = <<>>
    /\ mkdir_calls = <<>>
    /\ run_number = 0
    /\ allocated = <<>>
    /\ interferences = 0

InitRun(rows, decls) ==
    /\ OutsideProgramRun
    /\ transaction_rows = rows
    /\ declarations = decls
    /\ row_index = 2
    /\ transactions = <<>>
    /\ transactions_log = <<>>
    /\ manual_handling_log = <<>>
    /\ matching_declarations = None
    /\ transaction_eligability = None
    /\ warnings_issued = <<>>
    /\ pc = "filtering"
    /\ fn = "_do_filtering_with_logging"
    /\ arg = None
    /\ ret = None

Init ==
    \E parsed \in SeqsUpTo(ParsedTransactionPool, MaxTransactionRows),
       decls \in SeqsUpTo(DeclarationPool, MaxDeclarations) :
        InitRun(WithRowIndexes(parsed), decls)

Next ==
    \/ SkipNoAmount
    \/ SkipNegativeAmount
    \/ NotGiftAidable
    \/ AcceptTransaction
    \/ ExcludeDeclaredTransaction
    \/ EligabilityCheckRaises
    \/ AmbiguousTransaction
    \/ ReturnTransactions

Spec == Init /\ [][Next]_vars

----------------------------------------------------------------------------
(* Runs long enough to fill the schedule *)

\* longest tail of rows after the rows that fill the schedule
MaxTailRows == 1

FillingTransaction == <<Date(1993, 10, 9), Ref_Ab_1, Some(500)>>

\* under the first list FillingTransaction has two possible donors, under the
\* second it is accepted for one
LongRunDeclarationLists ==
    { <<DeclarationOf(RawDeclaration_Ab), DeclarationOf(RawDeclaration_b)>>,
      <<DeclarationOf(RawDeclaration_Ab), DeclarationOf(RawDeclaration_c)>> }

LongRunHeadPool ==
    { FillingTransaction,
      <<Date(1993, 10, 9), Ref_b, Some(-1)>>,
      <<Date(1993, 10, 9), Ref_b, Some(500)>>,
      <<Date(1993, 10, 9), Ref_C, Some(500)>> }

LongRunTailPool ==
    { FillingTransaction,
      <<Date(1993, 10, 9), Ref_Ab_1, None>> }

\* at most one row, then one row short of a full schedule of rows that each
\* emit a transaction, then a short tail
InitLongRun ==
    \E head \in SeqsUpTo(LongRunHeadPool, 1),
       tail \in SeqsUpTo(LongRunTailPool, MaxTailRows),
       decls \in LongRunDeclarationLists :
        InitRun(WithRowIndexes(
                    head \o [i \in 1..(MaxScheduleTransactions - 1) |-> FillingTransaction]
                         \o tail),
                decls)

SpecLongRun == InitLongRun /\ [][Next]_vars

----------------------------------------------------------------------------
(* The eligibility function and the declaration parser evaluated on their own *)

IdleRun ==
    /\ OutsideProgramRun
    /\ transaction_rows = <<>>
    /\ declarations = <<>>
    /\ row_index = 2
    /\ transactions = <<>>
    /\ transactions_log = <<>>
    /\ manual_handling_log = <<>>
    /\ matching_declarations = None
    /\ transaction_eligability = None
    /\ warnings_issued = <<>>
    /\ pc = "idle"

DigitChars == <<"0", "1", "2", "3", "4", "5", "6", "7", "8", "9">>

RECURSIVE PowerOfTen(_)
PowerOfTen(n) == IF n = 0 THEN 1 ELSE 10 * PowerOfTen(n - 1)

\* n written with `width` digits
NumberString(n, width) ==
    [i \in 1..width |-> DigitChars[((n \div PowerOfTen(width - i)) % 10) + 1]]

\* a date as declarations.csv writes it, dd/mm/yyyy
UkDateString(y, m, d) ==
    NumberString(d, 2) \o <<"/">> \o NumberString(m, 2) \o <<"/">> \o NumberString(y, 4)

DeclarationYears == {4, 5, 1904, 1993, 2004}

DeclarationMonths == {2, 10}

DeclarationDays == {8, 28, 29}

\* the declaration dates parse_uk_formatted_date yields for those day/month/year
ParsedDeclarationDates ==
    { parse_uk_formatted_date(UkDateString(y, m, d))[1] :
          <<y, m, d>> \in { t \in DeclarationYears \X DeclarationMonths \X DeclarationDays :
                              ~IsNone(parse_uk_formatted_date(UkDateString(t[1], t[2], t[3]))) } }

TransactionYears == {1, 4, 5, 1900, 1904, 1989, 1993, 2000, 2004}

TransactionMonths == {2, 3, 10}

TransactionDays == {1, 7, 8, 9, 28, 29}

TransactionDates ==
    { Date(t[1], t[2], t[3]) :
          t \in { u \in TransactionYears \X TransactionMonths \X TransactionDays :
                      IsValidDate(u[1], u[2], u[3]) } }

InitEligability ==
    /\ IdleRun
    /\ fn = "_determine_whether_transaction_gift_aidable_for_declaration"
    /\ \E t \in TransactionDates, d \in ParsedDeclarationDates,
          four_years \in BOOLEAN, day_of \in BOOLEAN, after \in BOOLEAN :
           arg = [ transaction_row |-> [transaction_date |-> t],
                   declaration |-> [ declaration_date |-> d,
                                     valid_four_years_before_declaration |-> four_years,
                                     valid_day_of_declaration |-> day_of,
                                     valid_after_day_of_declaration |-> after ] ]
    /\ ret = None

DetermineEligability ==
    /\ fn = "_determine_whether_transaction_gift_aidable_for_declaration"
    /\ ret = None
    /\ ret' = Some(_determine_whether_transaction_gift_aidable_for_declaration(
                       arg.transaction_row, arg.declaration))
    /\ UNCHANGED <<pipeline_vars, program_vars, fn, arg>>

NextEligability == DetermineEligability

SpecEligability == InitEligability /\ [][NextEligability]_vars

\* longest raw identifier drawn
MaxIdentifierLength == 2

IdentifierCharacters == {"a", "B", "1", " ", "-"}

RawIdentifiers == SeqsUpTo(IdentifierCharacters, MaxIdentifierLength)

RawTitles == {<<"M", "r">>, <<"R", "e", "v", "d", ".">>}

RawFirstNames == {<<"A">>, <<" ">>}

InitDeclarationRow ==
    /\ IdleRun
    /\ fn = "DeclarationRow.from_row"
    /\ \E title \in RawTitles, first_name \in RawFirstNames, identifier \in RawIdentifiers :
           arg = RawDeclarationRow(title, first_name, <<"B">>, <<"1">>, Postcode_B12_8QX,
                                   Date_8_10_1993, <<"1">>, <<"1">>, <<"1">>, identifier)
    /\ ret = None

\* DeclarationRow.from_row, then main()'s DonorDeclaration.from_declaration_row
\* when the row was accepted
ParseDeclarationRow ==
    /\ fn = "DeclarationRow.from_row"
    /\ ret = None
    /\ LET parsed == DeclarationRow_from_row(arg) IN
       ret' = Some([ parsed |-> parsed,
                     declaration |->
                         IF parsed.ok
                         THEN Some(DonorDeclaration_from_declaration_row(parsed.value[1]))
                         ELSE None ])
    /\ UNCHANGED <<pipeline_vars, program_vars, fn, arg>>

NextDeclarationRow == ParseDeclarationRow

SpecDeclarationRow == InitDeclarationRow /\ [][NextDeclarationRow]_vars

\* how long the postcode fields handed to DeclarationRow.from_row are
MaxPostcodeLength == 6

PostcodeCharacters == {"B", "x", "1", " ", "-"}

InitPostcode ==
    /\ IdleRun
    /\ fn = "DeclarationRow.from_row"
    /\ \E postcode \in SeqsUpTo(PostcodeCharacters, MaxPostcodeLength) :
           arg = [RawDeclaration_Ab EXCEPT ![5] = postcode]
    /\ ret = None

SpecPostcode == InitPostcode /\ [][NextDeclarationRow]_vars

\* how long the strings handed to clean_key are
MaxKeyLength == 4

\* "U+05D0" stands for a letter that has no case, written as one character
KeyCharacters == {"a", "B", "7", " ", "-", "U+05D0", KelvinSign}

InitCleanKey ==
    /\ IdleRun
    /\ fn = "clean_key"
    /\ arg \in SeqsUpTo(KeyCharacters, MaxKeyLength)
    /\ ret = None

CleanKey ==
    /\ fn = "clean_key"
    /\ ret = None
    /\ ret' = Some(clean_key(arg))
    /\ UNCHANGED <<pipeline_vars, program_vars, fn, arg>>

NextCleanKey == CleanKey

SpecCleanKey == InitCleanKey /\ [][NextCleanKey]_vars

DayFields == {<<"8">>, <<"0", "8">>, <<" ", "8">>, <<"2", "9">>, <<"3", "1">>, <<"3", "2">>,
              <<"0">>, <<"0", "0", "8">>, <<>>}

MonthFields == {<<"2">>, <<"0", "2">>, <<" ", "2">>, <<"1", "0">>, <<"1", "3">>, <<"0">>}

YearFields == {<<"1", "9", "9", "3">>, <<"9", "3">>, <<"2", "0", "2", "0">>, <<"2", "0">>,
               <<"1", "9", "0", "0">>, <<"0", "0">>, <<"6", "8">>, <<"6", "9">>,
               <<"0", "0", "0", "0">>, <<"0", "0", "0", "1">>, <<"1", "9", "9">>,
               <<"1", "9", "9", "3", "1">>, <<"2", "1", "0", "0">>}

\* day, month and year fields in either order, with slashes or hyphens
DateStrings ==
    { fields[1] \o <<separator>> \o fields[2] \o <<separator>> \o fields[3] :
          <<fields, separator>> \in
              ({<<d, m, y>> : <<d, m, y>> \in DayFields \X MonthFields \X YearFields} \cup
               {<<y, m, d>> : <<d, m, y>> \in DayFields \X MonthFields \X YearFields})
              \X {"/", "-"} }

InitParseDate ==
    /\ IdleRun
    /\ fn = "parse_uk_formatted_date"
    /\ arg \in DateStrings
    /\ ret = None

ParseUkFormattedDate ==
    /\ fn = "parse_uk_formatted_date"
    /\ ret = None
    /\ ret' = Some(parse_uk_formatted_date(arg))
    /\ UNCHANGED <<pipeline_vars, program_vars, fn, arg>>

NextParseDate == ParseUkFormattedDate

SpecParseDate == InitParseDate /\ [][NextParseDate]_vars

\* how many donations the lists handed to the workbook writer hold
MaxWrittenTransactions == 2

\* donations as the loop builds them, with one donor or none
GiftAidableTransactionPool ==
    { GiftAidableTransaction_from_transaction_row(
          TransactionRow(transaction_date, Ref_Ab_1, Some(amount), 2), donor_declaration) :
          <<transaction_date, amount, donor_declaration>> \in
              {Date(1993, 10, 8), Date(1993, 10, 9), Date(1994, 1, 1)}
                  \X {0, 500} \X {None, Some(DeclarationOf(RawDeclaration_Ab))} }

InitWriteWorkbook ==
    /\ IdleRun
    /\ fn = "_write_transactions_to_output_workbook"
    /\ arg \in SeqsUpTo(GiftAidableTransactionPool, MaxWrittenTransactions)
    /\ ret = None

WriteWorkbook ==
    /\ fn = "_write_transactions_to_output_workbook"
    /\ ret = None
    /\ ret' = Some(_write_transactions_to_output_workbook(arg))
    /\ UNCHANGED <<pipeline_vars, program_vars, fn, arg>>

NextWriteWorkbook == WriteWorkbook

SpecWriteWorkbook == InitWriteWorkbook /\ [][NextWriteWorkbook]_vars

Repeated(c, n) == [i \in 1..n |-> c]

\* fields of declarations.csv lines: for each column, values the column's
\* rules accept and values they refuse
RawTitleFields == {<<"M", "r">>, <<"R", "e", "v", "d", ".">>}

RawFirstNameFields == {<<"A">>, <<" ">>, Repeated("a", 36)}

RawLastNameFields == {<<"B">>, <<>>, Repeated("b", 36), <<"B", "-", "C">>}

RawHouseFields == {<<"1">>, <<" ", " ">>, Repeated("1", 41)}

RawPostcodeFields == {Postcode_B12_8QX, <<"1", "2">>, <<"b", "1">>}

RawDateFields == {Date_8_10_1993, Date_1993_10_08_hyphens}

RawFourYearsFields == {<<"0">>, <<"1">>, <<"2">>}

RawDayOfFields == {<<"1">>, <<"y">>}

RawAfterFields == {<<"0">>, <<>>}

RawIdentifierFields == {<<"A", "-", "b">>, <<" ">>}

\* ten-field lines, and nine- and eleven-field lines made from some of them
RawDeclarationRowsForChecks ==
    LET ten == { RawDeclarationRow(t, f, l, h, p, d, b1, b2, b3, id) :
                     <<t, f, l, h, p, d, b1, b2, b3, id>> \in
                         RawTitleFields \X RawFirstNameFields \X RawLastNameFields
                         \X RawHouseFields \X RawPostcodeFields \X RawDateFields
                         \X RawFourYearsFields \X RawDayOfFields \X RawAfterFields
                         \X RawIdentifierFields }
        some == { r \in ten : r[3] = <<"B">> /\ r[4] = <<"1">> /\ r[7] = <<"1">> }
    IN  ten \cup { SubSeq(r, 1, 9) : r \in some } \cup { r \o <<<<>>>> : r \in some }

InitDeclarationRowChecks ==
    /\ IdleRun
    /\ fn = "DeclarationRow.from_row"
    /\ arg \in RawDeclarationRowsForChecks
    /\ ret = None

SpecDeclarationRowChecks == InitDeclarationRowChecks /\ [][NextDeclarationRow]_vars

\* longest amount field drawn
MaxAmountLength == 3

AmountCharacters == {"5", ".", "-", "$", TrueMinus}

RawAmounts == SeqsUpTo(AmountCharacters, MaxAmountLength)

Date_08_10_93_padded == <<" ">> \o Date_08_10_93 \o <<" ">>

Date_31_02_2020 == <<"3", "1", "/", "0", "2", "/", "2", "0", "2", "0">>

RawTransactionDates ==
    {Date_8_10_1993, Date_08_10_93_padded, Date_1993_10_08_hyphens, Date_31_02_2020, <<>>}

RawReferences == {Ref_Ab_1, <<>>}

\* lines of transactions.csv as csv.reader yields them: two, three or four fields
RawTransactionRows ==
    UNION { { <<d, r>>, <<d, r, a>>, <<d, r, a, <<>>>> } :
                <<d, r, a>> \in RawTransactionDates \X RawReferences \X RawAmounts }

InitTransactionRow ==
    /\ IdleRun
    /\ fn = "TransactionRow.from_row"
    /\ \E row \in RawTransactionRows, index \in {2, 7} :
           arg = [row |-> row, row_index |-> index]
    /\ ret = None

ParseTransactionRow ==
    /\ fn = "TransactionRow.from_row"
    /\ ret = None
    /\ ret' = Some(TransactionRow_from_row(arg.row, arg.row_index))
    /\ UNCHANGED <<pipeline_vars, program_vars, fn, arg>>

NextTransactionRow == ParseTransactionRow

SpecTransactionRow == InitTransactionRow /\ [][NextTransactionRow]_vars

\* how long the amount strings handed to _parse_transaction_amount are
MaxParsedAmountLength == 5

InitParseAmount ==
    /\ IdleRun
    /\ fn = "_parse_transaction_amount"
    /\ arg \in SeqsUpTo(AmountCharacters, MaxParsedAmountLength)
    /\ ret = None

ParseTransactionAmount ==
    /\ fn = "_parse_transaction_amount"
    /\ ret = None
    /\ ret' = Some(_parse_transaction_amount(arg))
    /\ UNCHANGED <<pipeline_vars, program_vars, fn, arg>>

NextParseAmount == ParseTransactionAmount

SpecParseAmount == InitParseAmount /\ [][NextParseAmount]_vars

----------------------------------------------------------------------------
(* Runs of the program: main and build_output_directory *)

\* how many processes are run one after the other on the same day
MaxRuns == 3

\* how many times another program creates a directory between the choice of
\* a name and its mkdir
MaxInterferences == 1

Stamp_2024_03_05 == <<"2", "0", "2", "4", "-", "0", "3", "-", "0", "5">>

Stamp_2024_03_04 == <<"2", "0", "2", "4", "-", "0", "3", "-", "0", "4">>

NumberedName(stamp, digits, trailing_text) ==
    directory_base_name(stamp) \o <<"_", "(">> \o digits \o <<")">> \o trailing_text

\* names found in the outputs directory before the first run: the base name,
\* numbered names with a gap, one with text after the number, one with text
\* before it, one of another day
SiblingPool ==
    { directory_base_name(Stamp_2024_03_05),
      NumberedName(Stamp_2024_03_05, <<"1">>, <<>>),
      NumberedName(Stamp_2024_03_05, <<"0", "3">>, <<>>),
      NumberedName(Stamp_2024_03_05, <<"2">>, <<"_", "o", "l", "d">>),
      directory_base_name(Stamp_2024_03_05) \o <<"-", "c", "o", "p", "y", "_", "(", "9", ")">>,
      NumberedName(Stamp_2024_03_04, <<"7">>, <<>>) }

GoodTransactionsHeader ==
    << <<"D", "a", "t", "e">>, <<" ">> \o transactions_expected_header_row[2],
       transactions_expected_header_row[3] >>

GoodTransactionLine == <<Date_8_10_1993, Ref_Ab_1, <<"5", ".", "0", "0">>>>

TransactionsFiles ==
    { None,
      CsvFile([transactions_expected_header_row EXCEPT ![2] = <<"r", "e", "f">>], <<GoodTransactionLine>>),
      CsvFile(SubSeq(transactions_expected_header_row, 1, 2), <<GoodTransactionLine>>),
      CsvFile(GoodTransactionsHeader, <<GoodTransactionLine>>),
      CsvFile(GoodTransactionsHeader,
              <<GoodTransactionLine, <<Date_31_02_2020, Ref_b, <<"5">>>>, GoodTransactionLine>>),
      CsvFile(GoodTransactionsHeader, <<GoodTransactionLine, <<Date_8_10_1993, Ref_b, <<"5", "-">>>>>>),
      CsvFile(GoodTransactionsHeader, <<GoodTransactionLine, <<Date_8_10_1993, Ref_b>>>>) }

DeclarationsFiles ==
    { None,
      CsvFile(Tail(expected_header_row), <<RawDeclaration_Ab>>),
      CsvFile([expected_header_row EXCEPT ![10] = expected_header_row[1]], <<RawDeclaration_Ab>>),
      CsvFile(expected_header_row, <<RawDeclaration_Ab, RawDeclaration_b>>),
      CsvFile(expected_header_row, <<RawDeclaration_Ab, RawDeclaration_12>>),
      CsvFile(expected_header_row, <<RawDeclaration_Ab, Tail(RawDeclaration_b)>>) }

\* arguments of build_output_directory that take the loop through each of its branches
BuildArguments ==
    { [ rows |-> <<>>,
        decls |-> <<DeclarationOf(RawDeclaration_Ab), DeclarationOf(RawDeclaration_b)>> ],
      [ rows |-> WithRowIndexes(<< <<Date(1993, 10, 9), Ref_Ab_1, None>>,
                                   <<Date(1993, 10, 9), Ref_b, Some(-1)>>,
                                   <<Date(1993, 10, 9), Ref_9, Some(500)>>,
                                   <<Date(1993, 10, 9), Ref_Ab_1, Some(500)>>,
                                   <<Date(1990, 1, 1), Ref_b, Some(500)>>,
                                   <<Date(1993, 10, 9), Ref_b, Some(500)>> >>),
        decls |-> <<DeclarationOf(RawDeclaration_Ab), DeclarationOf(RawDeclaration_b)>> ],
      [ rows |-> WithRowIndexes(<< FillingTransaction,
                                   <<Date(1993, 10, 9), Ref_C, Some(500)>> >>),
        decls |-> <<DeclarationOf(RawDeclaration_Ab), DeclarationOf(RawDeclaration_c)>> ] }

PresentFile == CsvFile(<<>>, <<>>)

\* the template and the two csv files of the project directory as
\* build_output_directory finds them
BuildEnvironments ==
    { [ template |-> "valid", transactions_file |-> PresentFile, declarations_file |-> PresentFile ],
      [ template |-> "missing", transactions_file |-> PresentFile, declarations_file |-> PresentFile ],
      [ template |-> "malformed", transactions_file |-> PresentFile, declarations_file |-> PresentFile ],
      [ template |-> "valid", transactions_file |-> None, declarations_file |-> PresentFile ],
      [ template |-> "valid", transactions_file |-> PresentFile, declarations_file |-> None ] }

\* a fresh process: the module global and the locals are unset
ProcessStart(entry) ==
    /\ _output_directory = None
    /\ worksheet = None
    /\ main_pc = entry
    /\ call_site = "none"
    /\ uncaught_exception = None
    /\ get_output_directory_calls = <<>>
    /\ mkdir_calls = <<>>
    /\ row_index = 2
    /\ transactions = <<>>
    /\ transactions_log = <<>>
    /\ manual_handling_log = <<>>
    /\ matching_declarations = None
    /\ transaction_eligability = None
    /\ warnings_issued = <<>>
    /\ pc = "idle"
    /\ arg = None
    /\ ret = None

EntryPoint == IF fn = "main" THEN "main" ELSE "build_output_directory:start"

InitProgram ==
    /\ date_stamp = Stamp_2024_03_05
    /\ outputs_directory \in SUBSET SiblingPool
    /\ output_files = {}
    /\ run_number = 1
    /\ allocated = <<>>
    /\ interferences = 0
    /\ \/ /\ fn = "main"
          /\ transactions_file \in TransactionsFiles
          /\ declarations_file \in DeclarationsFiles
          /\ template = "valid"
          /\ transaction_rows = <<>>
          /\ declarations = <<>>
          /\ outputs_directory \in {{}, {directory_base_name(Stamp_2024_03_05)}}
       \/ /\ fn = "build_output_directory"
          /\ \E arguments \in BuildArguments, environment \in BuildEnvironments :
                /\ transaction_rows = arguments.rows
                /\ declarations = arguments.decls
                /\ template = environment.template
                /\ transactions_file = environment.transactions_file
                /\ declarations_file = environment.declarations_file
                /\ (arguments.rows # <<>> => environment.template = "valid")
    /\ ProcessStart(EntryPoint)

\* the process has ended; the program is run again on the same day
StartNextRun ==
    /\ main_pc \in {"done", "raised"}
    /\ run_number < MaxRuns
    /\ run_number' = run_number + 1
    /\ _output_directory' = None
    /\ worksheet' = None
    /\ main_pc' = EntryPoint
    /\ call_site' = "none"
    /\ uncaught_exception' = None
    /\ get_output_directory_calls' = <<>>
    /\ mkdir_calls' = <<>>
    /\ row_index' = 2
    /\ transactions' = <<>>
    /\ transactions_log' = <<>>
    /\ manual_handling_log' = <<>>
    /\ matching_declarations' = None
    /\ transaction_eligability' = None
    /\ warnings_issued' = <<>>
    /\ pc' = "idle"
    /\ UNCHANGED <<transaction_rows, declarations, harness_vars, outputs_directory,
                   output_files, environment_vars, allocated, interferences>>

\* between the choice of the name and its mkdir, another program (or another
\* process of this one) creates a directory of that name
OtherProgramCreatesDirectory ==
    /\ main_pc = "mkdir"
    /\ interferences < MaxInterferences
    /\ _output_directory[1] \notin outputs_directory
    /\ outputs_directory' = outputs_directory \cup {_output_directory[1]}
    /\ interferences' = interferences + 1
    /\ UNCHANGED <<pipeline_vars, harness_vars, output_files, _output_directory,
                   environment_vars, worksheet, main_pc, call_site, uncaught_exception,
                   get_output_directory_calls, mkdir_calls, run_number, allocated>>

NextProgram ==
    \/ Main_ParseTransactionsFile
    \/ Main_ParseDeclarationsFile
    \/ Main_CallBuildOutputDirectory
    \/ CreateOutputFile_GetOutputDirectory
    \/ GetOutputDirectory_Determine
    \/ GetOutputDirectory_Mkdir
    \/ GetOutputDirectory_Cached
    \/ CreateOutputFile_Copy
    \/ CheckOutputWorkbook
    \/ FilterGiftAidableTransactions_GetOutputDirectory
    \/ FilterGiftAidableTransactions_OpenLogs
    \/ Next
    \/ FilteringRaised
    \/ WriteTransactionsToOutputWorkbook
    \/ BuildOutputDirectory_GetOutputDirectory
    \/ CopyAncillaryFiles
    \/ StartNextRun
    \/ OtherProgramCreatesDirectory

SpecProgram == InitProgram /\ [][NextProgram]_vars

----------------------------------------------------------------------------
(* The two file parsers evaluated on their own *)

\* how many rows a file has after its header
MaxFileRows == 2

\* blanks around the commas of the header line
PaddedHeader(header_row) ==
    [i \in 1..Len(header_row) |->
        (IF i = 1 THEN <<>> ELSE <<" ">>) \o header_row[i]
            \o (IF i = Len(header_row) THEN <<>> ELSE <<" ", " ">>)]

UpperCaseHeader(header_row) == [i \in 1..Len(header_row) |-> Upper(header_row[i])]

\* header rows as readline().strip().split(",") yields them
HeaderRowsLike(header_row) ==
    { header_row,
      UpperCaseHeader(header_row),
      PaddedHeader(header_row),
      [header_row EXCEPT ![2] = <<"r", "e", "f">>],
      [header_row EXCEPT ![1] = header_row[2], ![2] = header_row[1]],
      SubSeq(header_row, 1, Len(header_row) - 1),
      Append(header_row, <<>>),
      << <<>> >> }

TransactionLines ==
    { GoodTransactionLine,
      <<Date_08_10_93, Ref_b, <<"-">>>>,
      <<Date_31_02_2020, Ref_b, <<"5">>>>,
      <<Date_8_10_1993, Ref_b, <<"5", ".", "0", ".", "0">>>>,
      <<Date_1993_10_08_hyphens, Ref_b, <<"5", "-">>>>,
      <<Date_8_10_1993, Ref_b>>,
      <<>> }

DeclarationLines ==
    { RawDeclaration_Ab,
      RawDeclaration_12,
      [RawDeclaration_Ab EXCEPT ![1] = <<"M", "i", "s", "t", "e", "r">>],
      [RawDeclaration_b EXCEPT ![6] = Date_1993_10_08_hyphens, ![10] = <<" ">>],
      [RawDeclaration_b EXCEPT ![10] = <<>>],
      Tail(RawDeclaration_b),
      Append(RawDeclaration_Ab, <<>>) }

InitParseFile ==
    /\ IdleRun
    /\ \/ /\ fn = "parse_transactions_file"
          /\ arg \in {None} \cup
                 { CsvFile(header_row, rows) :
                       header_row \in HeaderRowsLike(transactions_expected_header_row),
                       rows \in SeqsUpTo(TransactionLines, MaxFileRows) }
       \/ /\ fn = "parse_declarations_file"
          /\ arg \in {None} \cup
                 { CsvFile(header_row, rows) :
                       header_row \in HeaderRowsLike(expected_header_row),
                       rows \in SeqsUpTo(DeclarationLines, MaxFileRows) }
    /\ ret = None

ParseTransactionsFile ==
    /\ fn = "parse_transactions_file"
    /\ ret = None
    /\ ret' = Some(parse_transactions_file(arg))
    /\ UNCHANGED <<pipeline_vars, program_vars, fn, arg>>

ParseDeclarationsFile ==
    /\ fn = "parse_declarations_file"
    /\ ret = None
    /\ ret' = Some(parse_declarations_file(arg))
    /\ UNCHANGED <<pipeline_vars, program_vars, fn, arg>>

NextParseFile == ParseTransactionsFile \/ ParseDeclarationsFile

SpecParseFile == InitParseFile /\ [][NextParseFile]_vars

----------------------------------------------------------------------------
(* Properties of the filtering loop *)

\* needle = haystack[i:j] for some 0 <= i <= j <= len(haystack)
IsContiguousSubstring(needle, haystack) ==
    \E i \in 0..Len(haystack), j \in 0..Len(haystack) :
        i <= j /\ SubSeq(haystack, i + 1, j) = needle

\* the declarations, in list order, whose identifier is a contiguous substring
\* of the row's normalized reference
SubstringMatches(transaction_row) ==
    LET InReference(d) ==
            IsContiguousSubstring(d.identifier, clean_key(transaction_row.reference))
    IN  SelectSeq(declarations, InReference)

AmountPresentAndNotNegative(transaction_row) ==
    transaction_row.amount # None /\ transaction_row.amount[1] >= 0

\* an iteration wrote exactly one entry to the transactions log, about the current row
WroteOneLogEntry(outcome, donors) ==
    /\ Len(transactions_log') = Len(transactions_log) + 1
    /\ SubSeq(transactions_log', 1, Len(transactions_log)) = transactions_log
    /\ Last(transactions_log').row_index = row_index
    /\ Last(transactions_log').outcome = outcome
    /\ Last(transactions_log').donors = donors

\* C1: for every row with a present, non-negative amount, matching_declarations
\* is exactly the list of declarations whose normalized identifier (clean_key of
\* a raw identifier) is a contiguous substring of clean_key(reference); when
\* none is, the row is logged as not gift-aidable and no donation is emitted.
C1_MatchingIsSubstringContainment ==
    [][ (AtRow /\ AmountPresentAndNotNegative(CurrentRow)) =>
          /\ \A i \in 1..Len(declarations) :
                 \E raw \in RawDeclarationPool :
                     declarations[i].identifier = clean_key(raw[10])
          /\ matching_declarations' = Some(SubstringMatches(CurrentRow))
          /\ SubstringMatches(CurrentRow) = <<>> =>
                 /\ transactions' = transactions
                 /\ manual_handling_log' = manual_handling_log
                 /\ WroteOneLogEntry("not_detected_as_gift_aidable", <<>>) ]_vars

\* a row was matched by an identifier lying strictly inside its normalized
\* reference, and another declaration of the list did not match it
C1_Witness ==
    /\ transactions_log # <<>>
    /\ matching_declarations # None
    /\ Len(matching_declarations[1]) = 1
    /\ Len(declarations) = 2
    /\ LET row == transaction_rows[Last(transactions_log).row_index - 1]
           d == matching_declarations[1][1]
       IN  /\ d.identifier # <<>>
           /\ Len(clean_key(row.reference)) > Len(d.identifier)
           /\ SubSeq(clean_key(row.reference), 1, Len(d.identifier)) # d.identifier

\* C3: a row without amount is logged "no associated amount", a row with an
\* amount below zero "amount is negative"; neither emits a donation nor computes
\* matching declarations nor evaluates eligibility. Every other row (amount zero
\* included) computes its matching declarations.
C3_SkipsDecidedByAmountAlone ==
    [][ AtRow =>
          /\ CurrentRow.amount = None =>
                 /\ WroteOneLogEntry("no_associated_amount", <<>>)
                 /\ transactions' = transactions
                 /\ manual_handling_log' = manual_handling_log
                 /\ matching_declarations' = None
                 /\ transaction_eligability' = None
          /\ (CurrentRow.amount # None /\ CurrentRow.amount[1] < 0) =>
                 /\ WroteOneLogEntry("amount_is_negative", <<>>)
                 /\ transactions' = transactions
                 /\ manual_handling_log' = manual_handling_log
                 /\ matching_declarations' = None
                 /\ transaction_eligability' = None
          /\ AmountPresentAndNotNegative(CurrentRow) =>
                 matching_declarations' # None ]_vars

\* a negative row whose reference contains a declaration's identifier was
\* skipped, and then a row of amount zero was matched and accepted
C3_Witness ==
    /\ Len(transactions_log) = 2
    /\ transactions_log[1].outcome = "amount_is_negative"
    /\ SubstringMatches(transaction_rows[1]) # <<>>
    /\ transaction_rows[2].amount = Some(0)
    /\ transactions_log[2].outcome = "detected_as_gift_aidable"
    /\ Len(transactions) = 1
    /\ transactions[1].amount = 0

\* the exclusion reason a log message states
ReasonStatedBy(outcome) ==
    CASE outcome = "occurred_more_than_four_years_before_declaration_date"
         -> TRANSACTION_OCCURRED_MORE_THAN_FOUR_YEARS_BEFORE_DECLARATION
      [] outcome = "occurred_less_than_four_years_before_but_not_covered"
         -> DECLARATION_INVALID_FOUR_YEARS_PRECEEDING_DAY_OF_DECLARATION
      [] outcome = "occurred_on_declaration_date_but_not_covered"
         -> DECLARATION_INVALID_FOR_DAY_OF_DECLARATION
      [] outcome = "occurred_after_declaration_date_but_not_covered"
         -> DECLARATION_INVALID_AFTER_DAY_OF_DECLARATION
      [] OTHER -> "none"

NameParts(d) ==
    (IF d.title = <<>> THEN <<>> ELSE <<d.title>>)
    \o (IF d.first_name = <<>> THEN <<>> ELSE <<d.first_name>>)
    \o (IF d.last_name = <<>> THEN <<>> ELSE <<d.last_name>>)

\* C4: when exactly one declaration matches a row, a donation is emitted iff
\* the eligibility function returns IS_GIFT_AIDABLE for the row and that
\* declaration; the donation is bound to that declaration; in the ineligible
\* case nothing is emitted and the log entry states the reason returned.
C4_SingleMatchFollowsEligibility ==
    [][ (AtRow /\ AmountPresentAndNotNegative(CurrentRow)
              /\ Len(SubstringMatches(CurrentRow)) = 1) =>
          LET d == SubstringMatches(CurrentRow)[1]
              result == _determine_whether_transaction_gift_aidable_for_declaration(
                            CurrentRow, d)
          IN  /\ (transactions' # transactions) <=> (result = IS_GIFT_AIDABLE)
              /\ result = IS_GIFT_AIDABLE =>
                     /\ transactions' = Append(transactions,
                            [ transaction_date |-> CurrentRow.transaction_date,
                              amount |-> CurrentRow.amount[1],
                              donor_declaration |-> Some(d) ])
                     /\ WroteOneLogEntry("detected_as_gift_aidable", <<NameParts(d)>>)
              /\ result \in TransactionEligability \ {IS_GIFT_AIDABLE} =>
                     /\ Len(transactions_log') = Len(transactions_log) + 1
                     /\ Last(transactions_log').row_index = row_index
                     /\ ReasonStatedBy(Last(transactions_log').outcome) = result
                     /\ Last(transactions_log').donors = <<NameParts(d)>>
              /\ manual_handling_log' = manual_handling_log ]_vars

\* of two rows matching one declaration each, the first was excluded as more
\* than four years before the declaration, the second accepted and bound
C4_Witness ==
    /\ Len(transactions_log) = 2
    /\ Len(SubstringMatches(transaction_rows[1])) = 1
    /\ ReasonStatedBy(transactions_log[1].outcome) =
           TRANSACTION_OCCURRED_MORE_THAN_FOUR_YEARS_BEFORE_DECLARATION
    /\ ~transactions_log[1].newline
    /\ Len(SubstringMatches(transaction_rows[2])) = 1
    /\ transactions_log[2].outcome = "detected_as_gift_aidable"
    /\ Len(transactions) = 1
    /\ transactions[1].donor_declaration = Some(SubstringMatches(transaction_rows[2])[1])

UnboundTransactions ==
    {i \in 1..Len(transactions) : transactions[i].donor_declaration = None}

\* C5: a row matched by two or more declarations emits exactly one donation
\* with no bound declaration, without evaluating eligibility, and writes one
\* manual-handling entry naming every matching donor; a donation is unbound
\* only then, so manual-handling entries and unbound donations are equinumerous.
C5_AmbiguousRowsAreClaimedUnbound ==
    /\ [](Len(manual_handling_log) = Cardinality(UnboundTransactions))
    /\ [][ (AtRow /\ AmountPresentAndNotNegative(CurrentRow)) =>
             LET matches == SubstringMatches(CurrentRow)
                 donors == [i \in 1..Len(matches) |-> NameParts(matches[i])]
             IN  /\ Len(matches) >= 2 =>
                        /\ transactions' = Append(transactions,
                               [ transaction_date |-> CurrentRow.transaction_date,
                                 amount |-> CurrentRow.amount[1],
                                 donor_declaration |-> None ])
                        /\ transaction_eligability' = None
                        /\ WroteOneLogEntry("multiple_possible_donors", donors)
                        /\ manual_handling_log' = Append(manual_handling_log,
                               [ xlsx_row_index |-> Last(manual_handling_log').xlsx_row_index,
                                 row_index |-> row_index, donors |-> donors,
                                 newline |-> TRUE ])
                 /\ Len(matches) < 2 =>
                        /\ manual_handling_log' = manual_handling_log
                        /\ \A i \in 1..Len(transactions') :
                               i > Len(transactions) =>
                                   transactions'[i].donor_declaration # None ]_vars

\* a row matched by two declarations of different donors was claimed unbound
\* and flagged, after a row that was accepted for a single declaration
C5_Witness ==
    /\ Len(transactions) = 2
    /\ transactions[1].donor_declaration # None
    /\ transactions[2].donor_declaration = None
    /\ Len(manual_handling_log) = 1
    /\ Len(manual_handling_log[1].donors) = 2
    /\ manual_handling_log[1].donors[1] # manual_handling_log[1].donors[2]
    /\ manual_handling_log[1].row_index = 3

\* the schedule filled up while processing row r, and rows remain after r
CapReachedBeforeLastRow ==
    /\ pc = "returned"
    /\ Len(warnings_issued) = 1
    /\ warnings_issued[1] - 1 < Len(transaction_rows)

\* C9: the list never holds more than 1000 transactions, bound or unbound; the
\* step that appends the 1000th returns and issues the warning naming its row,
\* and nothing is appended or logged once 1000 are held.
C9_AtMostThousandTransactions ==
    /\ [](Len(transactions) <= 1000)
    /\ [][ (Len(transactions') = 1000 /\ Len(transactions) < 1000) =>
               /\ pc' = "returned"
               /\ warnings_issued' = Append(warnings_issued, row_index) ]_vars
    /\ [][ Len(transactions) = 1000 =>
               /\ transactions' = transactions
               /\ transactions_log' = transactions_log
               /\ manual_handling_log' = manual_handling_log ]_vars

\* the run stopped holding 1000 transactions, both kinds possible, one row unread
C9_Witness ==
    /\ CapReachedBeforeLastRow
    /\ Len(transactions) = 1000
    /\ Len(transaction_rows) = 1001
    /\ Last(transactions_log).row_index = 1001

AllRowsEligibleUnderOneDeclaration ==
    \A i \in 1..Len(transaction_rows) :
        /\ AmountPresentAndNotNegative(transaction_rows[i])
        /\ Len(SubstringMatches(transaction_rows[i])) = 1
        /\ _determine_whether_transaction_gift_aidable_for_declaration(
               transaction_rows[i], SubstringMatches(transaction_rows[i])[1]) = IS_GIFT_AIDABLE

\* the first n rows were each accepted for their one declaration: donation i
\* and log entry i are those of input row i
FirstRowsAccepted(n) ==
    /\ Len(transactions) = n
    /\ Len(transactions_log) = n
    /\ \A i \in 1..n :
           /\ transactions[i] =
                  [ transaction_date |-> transaction_rows[i].transaction_date,
                    amount |-> transaction_rows[i].amount[1],
                    donor_declaration |-> Some(SubstringMatches(transaction_rows[i])[1]) ]
           /\ transactions_log[i].row_index = i + 1
           /\ transactions_log[i].reference = transaction_rows[i].reference
           /\ transactions_log[i].outcome = "detected_as_gift_aidable"

\* C11 as claimed: for every N, a run over N rows that are all eligible, each
\* under the one declaration matching it, returns N donations and has written
\* N log entries.
C11_EveryEligibleRowIsEmitted ==
    (pc = "returned" /\ AllRowsEligibleUnderOneDeclaration) =>
        /\ Len(transactions) = Len(transaction_rows)
        /\ Len(transactions_log) = Len(transaction_rows)

\* C11 amended: such a run over N rows returns min(N, 1000) donations and has
\* written min(N, 1000) log entries, those of the first min(N, 1000) rows in
\* input order.
C11_EligibleRowsAreEmittedUpToTheCap ==
    (pc = "returned" /\ AllRowsEligibleUnderOneDeclaration) =>
        IF Len(transaction_rows) <= 1000
        THEN FirstRowsAccepted(Len(transaction_rows))
        ELSE FirstRowsAccepted(1000)

\* a run over exactly 1000 rows, all eligible under one declaration each, returned
C11_Witness ==
    /\ pc = "returned"
    /\ Len(transaction_rows) = 1000
    /\ AllRowsEligibleUnderOneDeclaration
    /\ Len(transactions) = 1000
    /\ transactions[1000].donor_declaration # None

\* C12 as claimed: for every list of rows and every list of declarations the
\* function does not raise; it ends by returning.
C12_FilteringNeverRaises ==
    pc # "raised"

KthUnboundTransaction(k) ==
    CHOOSE i \in UnboundTransactions :
        Cardinality({j \in UnboundTransactions : j <= i}) = k

\* the worksheet row at which _write_transactions_to_output_workbook writes
\* the transaction at position i of the list
WrittenWorksheetRow(i) ==
    CHOOSE xlsx_row \in DOMAIN _write_transactions_to_output_workbook(transactions).table :
        xlsx_row - _first_table_row_index + 1 = i

\* C14 as claimed: the worksheet row named by the k-th manual-handling entry is
\* the row at which the k-th transaction without declaration is written.
C14_ManualEntryNamesTheWrittenRow ==
    \A k \in 1..Len(manual_handling_log) :
        manual_handling_log[k].xlsx_row_index = WrittenWorksheetRow(KthUnboundTransaction(k))

----------------------------------------------------------------------------
(* Properties of the run directory *)

Range(s) == {s[i] : i \in 1..Len(s)}

\* the numbers k of the siblings named output_<stamp>_(k) followed by anything
NumericSuffixes(siblings, stamp) ==
    LET base == directory_base_name(stamp) \o <<"_", "(">>
        first == Len(base) + 1
        closings(d) == {j \in (first + 1)..Len(d) :
                            /\ d[j] = ")"
                            /\ \A i \in first..(j - 1) : d[i] \in Digits}
    IN  UNION {{DecimalValue(SubSeq(d, first, j - 1)) : j \in closings(d)} :
                   d \in {e \in siblings : StartsWith(e, base)}}

\* the name the naming rule gives for a set of siblings and a date
NameByRule(siblings, stamp) ==
    LET suffixes == NumericSuffixes(siblings, stamp)
        n == IF suffixes = {} THEN 1
             ELSE 1 + (CHOOSE k \in suffixes : \A other \in suffixes : other <= k)
    IN  IF directory_base_name(stamp) \notin siblings
        THEN directory_base_name(stamp)
        ELSE NumberedName(stamp, IntString(n), <<>>)

\* the step in which _get_output_directory assigns the module global
DeterminesDirectory == _output_directory = None /\ _output_directory' # None

\* C15: the name _determine_output_directory returns is output_D when no
\* sibling has exactly that name, and otherwise output_D_(n), n being one more
\* than the largest number k of a sibling named output_D_(k)..., or 1 when
\* there is none; when every directory present was made by the runs
\* themselves, the first run has output_D and the k-th run has output_D_(k-1)
C15_NameFollowsTheNamingRule ==
    /\ [][DeterminesDirectory =>
              _output_directory'[1] = NameByRule(outputs_directory, date_stamp)]_vars
    /\ [](outputs_directory = Range(allocated) =>
              \A k \in 1..Len(allocated) :
                  allocated[k] = IF k = 1 THEN directory_base_name(date_stamp)
                                 ELSE NumberedName(date_stamp, IntString(k - 1), <<>>))

\* next to output_D, output_D_(03) and output_D_(2)_old a run was given
\* output_D_(4) and the run after it output_D_(5)
C15_Witness ==
    /\ { directory_base_name(date_stamp),
         NumberedName(date_stamp, <<"0", "3">>, <<>>),
         NumberedName(date_stamp, <<"2">>, <<"_", "o", "l", "d">>) } \subseteq outputs_directory
    /\ Len(allocated) = 2
    /\ allocated[1] = NumberedName(date_stamp, <<"4">>, <<>>)
    /\ allocated[2] = NumberedName(date_stamp, <<"5">>, <<>>)

\* C16: the name a run chooses is not the name of an existing sibling, the
\* directories of the runs are pairwise different, a directory is only ever
\* created under a name that did not exist, a mkdir that finds the name taken
\* ends the process with FileExistsError, and a process writes files only
\* into the directory it created itself
C16_EveryRunGetsItsOwnDirectory ==
    /\ [][DeterminesDirectory => _output_directory'[1] \notin outputs_directory]_vars
    /\ [](\A i, j \in 1..Len(allocated) : i # j => allocated[i] # allocated[j])
    /\ [][allocated' # allocated =>
              /\ allocated' = Append(allocated, _output_directory[1])
              /\ _output_directory[1] \notin outputs_directory]_vars
    /\ [](\A i \in 1..Len(mkdir_calls) :
              ~mkdir_calls[i].created =>
                  /\ main_pc = "raised"
                  /\ uncaught_exception = Some("FileExistsError")
                  /\ get_output_directory_calls = <<>>)
    /\ [][\A f \in output_files' \ output_files :
              /\ mkdir_calls # <<>>
              /\ mkdir_calls[1].created
              /\ f[1] = mkdir_calls[1].name
              /\ f[1] = Last(allocated)]_vars

\* two runs were given a directory each, and the third found the name it
\* chose taken at the time of its mkdir
C16_Witness ==
    /\ Len(allocated) = 2
    /\ uncaught_exception = Some("FileExistsError")
    /\ mkdir_calls # <<>>
    /\ ~mkdir_calls[1].created
    /\ NumberedName(date_stamp, <<"2">>, <<"_", "o", "l", "d">>) \in outputs_directory

OutputFileNames ==
    { "gift_aid_schedule__libre_.xlsx", "transactions_log.txt",
      "transactions_that_need_manual_handling.txt", "transactions.csv", "declarations.csv" }

\* C17: a process calls mkdir at most once, during its first call of
\* _get_output_directory; the global is never assigned again; every call
\* returns the path of the directory the process created; and the files the
\* process writes all go into that directory
C17_DirectoryAllocatedOncePerProcess ==
    /\ [](Len(mkdir_calls) <= 1)
    /\ [](get_output_directory_calls # <<>> =>
              /\ _output_directory # None
              /\ mkdir_calls = <<[name |-> _output_directory[1], created |-> TRUE]>>
              /\ \A i \in 1..Len(get_output_directory_calls) :
                     get_output_directory_calls[i].returned = _output_directory[1])
    /\ [][Len(mkdir_calls') > Len(mkdir_calls) =>
              mkdir_calls = <<>> /\ get_output_directory_calls = <<>>]_vars
    /\ [][(_output_directory # None /\ run_number' = run_number) =>
              _output_directory' = _output_directory]_vars
    /\ [][\A f \in output_files' \ output_files :
              _output_directory # None /\ f[1] = _output_directory[1]]_vars
    /\ [](main_pc = "done" =>
              {<<_output_directory[1], f>> : f \in OutputFileNames} \subseteq output_files)

\* a run ended after calls from the three call sites, in the order of the code
C17_Witness ==
    /\ main_pc = "done"
    /\ [i \in 1..Len(get_output_directory_calls) |-> get_output_directory_calls[i].caller] =
           <<"_create_output_file", "_filter_gift_aidable_transactions",
             "build_output_directory">>
    /\ transactions # <<>>

\* the two files are as main needs them
BothFilesParse ==
    /\ parse_transactions_file(transactions_file).ok
    /\ parse_declarations_file(declarations_file).ok

\* C18: in main the directory is not determined before both files have been
\* parsed, and a run whose transactions or declarations file is missing, has
\* the wrong header or has a row that does not parse ends with that error,
\* without a run directory and without any file written
C18_ParsingPrecedesAllocation ==
    /\ [][(fn = "main" /\ (_output_directory' # None \/ allocated' # allocated)) =>
              BothFilesParse /\ main_pc \notin {"main", "main:parse_declarations_file"}]_vars
    /\ []((fn = "main" /\ ~BothFilesParse) =>
              /\ main_pc \in {"main", "main:parse_declarations_file", "raised"}
              /\ _output_directory = None
              /\ allocated = <<>>
              /\ mkdir_calls = <<>>
              /\ output_files = {}
              /\ (main_pc = "raised" =>
                      uncaught_exception = Some(
                          IF ~parse_transactions_file(transactions_file).ok
                          THEN parse_transactions_file(transactions_file).exception
                          ELSE parse_declarations_file(declarations_file).exception)))

\* the transactions file parsed, a row of the declarations file did not, and
\* the outputs directory is as it was
C18_Witness ==
    /\ fn = "main"
    /\ main_pc = "raised"
    /\ uncaught_exception = Some("DeclarationRowParsingError")
    /\ transaction_rows # <<>>
    /\ outputs_directory = {directory_base_name(date_stamp)}
    /\ output_files = {}

----------------------------------------------------------------------------
(* Properties of the eligibility function *)

DateNumber(d) == d.year * 10000 + d.month * 100 + d.day

Evaluated ==
    /\ fn = "_determine_whether_transaction_gift_aidable_for_declaration"
    /\ ret # None

\* the declaration date's month and day exist in the year four years earlier
CutoffExists ==
    LET d == arg.declaration.declaration_date IN
    /\ d.year - 4 >= 1
    /\ ~(d.month = 2 /\ d.day = 29 /\ ~IsLeapYear(d.year - 4))

CutoffNumber == DateNumber(arg.declaration.declaration_date) - 40000

\* C6: every transaction date strictly before the cutoff (declaration date,
\* year reduced by 4, same month and day) gives
\* TRANSACTION_OCCURRED_MORE_THAN_FOUR_YEARS_BEFORE_DECLARATION whatever the flags.
C6_BeforeCutoffIsTooOld ==
    (Evaluated /\ CutoffExists
        /\ DateNumber(arg.transaction_row.transaction_date) < CutoffNumber) =>
        ret[1] = TRANSACTION_OCCURRED_MORE_THAN_FOUR_YEARS_BEFORE_DECLARATION

\* the day before the cutoff of a declaration covering all three bands
C6_Witness ==
    /\ Evaluated
    /\ arg.declaration.declaration_date = Date(1993, 10, 8)
    /\ arg.transaction_row.transaction_date = Date(1989, 10, 7)
    /\ arg.declaration.valid_four_years_before_declaration
    /\ arg.declaration.valid_day_of_declaration
    /\ arg.declaration.valid_after_day_of_declaration
    /\ ret[1] = TRANSACTION_OCCURRED_MORE_THAN_FOUR_YEARS_BEFORE_DECLARATION

\* C7: on or after the cutoff the result is decided by the flag of the one band
\* the transaction date lies in (before, on, after the declaration date):
\* IS_GIFT_AIDABLE when that flag is set, that band's exclusion otherwise.
C7_BandFlagDecides ==
    (Evaluated /\ CutoffExists
        /\ DateNumber(arg.transaction_row.transaction_date) >= CutoffNumber) =>
        LET t == DateNumber(arg.transaction_row.transaction_date)
            d == DateNumber(arg.declaration.declaration_date)
            flag == IF t < d THEN arg.declaration.valid_four_years_before_declaration
                    ELSE IF t = d THEN arg.declaration.valid_day_of_declaration
                    ELSE arg.declaration.valid_after_day_of_declaration
            exclusion ==
                IF t < d THEN DECLARATION_INVALID_FOUR_YEARS_PRECEEDING_DAY_OF_DECLARATION
                ELSE IF t = d THEN DECLARATION_INVALID_FOR_DAY_OF_DECLARATION
                ELSE DECLARATION_INVALID_AFTER_DAY_OF_DECLARATION
        IN  ret[1] = IF flag THEN IS_GIFT_AIDABLE ELSE exclusion

\* the cutoff day itself, under a declaration covering only the prior four years
C7_Witness ==
    /\ Evaluated
    /\ arg.declaration.declaration_date = Date(1993, 10, 8)
    /\ arg.transaction_row.transaction_date = Date(1989, 10, 8)
    /\ arg.declaration.valid_four_years_before_declaration
    /\ ~arg.declaration.valid_day_of_declaration
    /\ ~arg.declaration.valid_after_day_of_declaration
    /\ ret[1] = IS_GIFT_AIDABLE

\* C8: for every transaction date and every declaration date the parser can
\* yield, the function returns one of the five TransactionEligability members.
C8_EligabilityIsTotal ==
    Evaluated => ret[1] \in TransactionEligability

----------------------------------------------------------------------------
(* Properties of the declaration parser *)

\* C2: every declaration accepted by DeclarationRow.from_row and converted by
\* DonorDeclaration.from_declaration_row has a non-empty identifier.
C2_AcceptedIdentifierIsNonEmpty ==
    (fn = "DeclarationRow.from_row" /\ ret # None /\ ret[1].parsed.ok) =>
        ret[1].declaration[1].identifier # <<>>

\* the columns of a ten-field line of RawDeclarationRowsForChecks whose rule
\* the field breaks
ColumnsInError(row) ==
    {c \in 1..10 :
        \/ c = 1 /\ row[1] = <<"R", "e", "v", "d", ".">>
        \/ c = 2 /\ row[2] \in {<<" ">>, Repeated("a", 36)}
        \/ c = 3 /\ row[3] \in {<<>>, Repeated("b", 36), <<"B", "-", "C">>}
        \/ c = 4 /\ row[4] \in {<<" ", " ">>, Repeated("1", 41)}
        \/ c = 5 /\ row[5] \in {<<"1", "2">>, <<"b", "1">>}
        \/ c = 6 /\ row[6] = Date_1993_10_08_hyphens
        \/ c = 7 /\ row[7] = <<"2">>
        \/ c = 8 /\ row[8] = <<"y">>
        \/ c = 9 /\ row[9] = <<>>
        \/ c = 10 /\ row[10] = <<" ">>}

\* C19: a line that does not have ten fields is refused without column number;
\* a ten-field line breaking the rules of some columns is refused with the
\* lowest of those column numbers; a line breaking none is accepted.
C19_FirstViolatedColumnIsReported ==
    (fn = "DeclarationRow.from_row" /\ ret # None) =>
        LET result == ret[1].parsed IN
        IF Len(arg) # 10
        THEN ~result.ok /\ result.column_number = None
        ELSE IF ColumnsInError(arg) = {}
        THEN result.ok
        ELSE /\ ~result.ok
             /\ result.column_number # None
             /\ result.column_number[1] \in ColumnsInError(arg)
             /\ \A c \in ColumnsInError(arg) : result.column_number[1] <= c

\* a line with a hyphenated last name, an unparseable date, a flag that is
\* neither 0 nor 1 and a blank identifier was refused for column 3
C19_Witness ==
    /\ fn = "DeclarationRow.from_row"
    /\ ret # None
    /\ Len(arg) = 10
    /\ ColumnsInError(arg) = {3, 6, 7, 10}
    /\ arg[3] = <<"B", "-", "C">>
    /\ ret[1].parsed.column_number = Some(3)

----------------------------------------------------------------------------
(* Properties of the postcode rules *)

\* the postcode field in upper case, without the whitespace around it
UpperCasedAndTrimmed(raw) ==
    LET upper == [i \in 1..Len(raw) |-> UpperChar(raw[i])]
        inked == {i \in 1..Len(raw) : upper[i] \notin Whitespace}
    IN  IF inked = {} THEN <<>>
        ELSE SubSeq(upper, CHOOSE i \in inked : \A j \in inked : i <= j,
                           CHOOSE i \in inked : \A j \in inked : j <= i)

\* X passed through; otherwise what lies between the first and the last
\* letter, without anything but letters and digits, and with one space before
\* the last three characters when there are more than two
CleanedPostcodeByRule(raw) ==
    LET trimmed == UpperCasedAndTrimmed(raw)
        letters == {i \in 1..Len(trimmed) : trimmed[i] \in UpperLetters}
        between == IF letters = {} THEN <<>>
                   ELSE SubSeq(trimmed, CHOOSE i \in letters : \A j \in letters : i <= j,
                                        CHOOSE i \in letters : \A j \in letters : j <= i)
        remaining == SelectSeq(between, LAMBDA c : c \in UpperLetters \cup Digits)
    IN  IF trimmed = <<"X">> THEN trimmed
        ELSE IF Len(remaining) <= 2 THEN remaining
        ELSE [i \in 1..(Len(remaining) + 1) |->
                 IF i < Len(remaining) - 2 THEN remaining[i]
                 ELSE IF i = Len(remaining) - 2 THEN " "
                 ELSE remaining[i - 1]]

\* "L" for a letter, "D" for a digit, the character itself otherwise
CharacterClasses(s) ==
    [i \in 1..Len(s) |-> IF s[i] \in UpperLetters THEN "L"
                         ELSE IF s[i] \in Digits THEN "D" ELSE s[i]]

\* 1-2 letters, 1-2 digits, optional letter, one space, one digit, two letters
PostcodeShapes ==
    { outward \o <<" ", "D", "L", "L">> :
          outward \in { <<"L", "D">>, <<"L", "D", "D">>, <<"L", "L", "D">>,
                        <<"L", "L", "D", "D">>, <<"L", "D", "L">>, <<"L", "D", "D", "L">>,
                        <<"L", "L", "D", "L">>, <<"L", "L", "D", "D", "L">> } }

\* C23: DeclarationRow.from_row accepts the postcode field exactly when its
\* cleaned form is X or has the postcode shape, refuses it with column 5
\* otherwise, and stores the cleaned form, which satisfies validate_postcode;
\* clean_postcode cleans as the rule says
C23_PostcodeIsCleanedThenValidated ==
    (fn = "DeclarationRow.from_row" /\ ret # None) =>
        LET cleaned == CleanedPostcodeByRule(arg[5]) IN
        /\ clean_postcode(arg[5]) = cleaned
        /\ ret[1].parsed.ok <=>
               (cleaned = <<"X">> \/ CharacterClasses(cleaned) \in PostcodeShapes)
        /\ ret[1].parsed.ok =>
               /\ ret[1].parsed.value[1].postcode = cleaned
               /\ validate_postcode(ret[1].parsed.value[1].postcode)
        /\ ~ret[1].parsed.ok => ret[1].parsed.column_number = Some(5)

\* "-B11xx" is stored as "B1 1XX"
C23_Witness ==
    /\ fn = "DeclarationRow.from_row"
    /\ arg[5] = <<"-", "B", "1", "1", "x", "x">>
    /\ ret # None
    /\ ret[1].parsed.ok
    /\ ret[1].parsed.value[1].postcode = <<"B", "1", " ", "1", "X", "X">>

----------------------------------------------------------------------------
(* Properties of the transaction parser *)

\* the date a date field of RawTransactionDates denotes, None when it denotes none
DateDenotedBy(field) ==
    IF field \in {Date_8_10_1993, Date_08_10_93_padded}
    THEN Some(Date(1993, 10, 8))
    ELSE None

\* C20: a row that does not have 3 fields fails without column number; else a
\* date field that does not parse fails with column 1, whatever the amount;
\* else an amount whose cleaned string is no decimal fails with column 3; else
\* the TransactionRow holds the parsed date, the reference field unmodified,
\* the parsed amount and the row index given.
C20_TransactionRowChecksInOrder ==
    (fn = "TransactionRow.from_row" /\ ret # None) =>
        LET row == arg.row
            result == ret[1]
            amount == _parse_transaction_amount(row[3])
        IN  IF Len(row) # 3
            THEN ~result.ok /\ result.column_number = None
            ELSE IF DateDenotedBy(row[1]) = None
            THEN ~result.ok /\ result.column_number = Some(1)
            ELSE IF amount = Raised(InvalidOperation)
            THEN ~result.ok /\ result.column_number = Some(3)
            ELSE /\ result.ok
                 /\ result.value[1] =
                        [ transaction_date |-> DateDenotedBy(row[1])[1],
                          reference |-> row[2],
                          amount |-> amount.value[1],
                          row_index |-> arg.row_index ]

\* a row whose date is written year-month-day and whose amount is "5-5" was
\* refused for column 1
C20_Witness ==
    /\ fn = "TransactionRow.from_row"
    /\ ret # None
    /\ arg.row = <<Date_1993_10_08_hyphens, Ref_Ab_1, <<"5", "-", "5">>>>
    /\ _parse_transaction_amount(arg.row[3]) = Raised(InvalidOperation)
    /\ ret[1].column_number = Some(1)

----------------------------------------------------------------------------
(* Properties of the amount parser *)

\* the characters of `amount_string` that are digits, hyphens, periods or true
\* minus signs, in order, each true minus written as a hyphen
CleanedByRule(amount_string) ==
    LET kept == {i \in 1..Len(amount_string) :
                     amount_string[i] \in Digits \cup {"-", ".", TrueMinus}}
        position(k) == CHOOSE i \in kept : Cardinality({j \in kept : j <= i}) = k
    IN  [k \in 1..Cardinality(kept) |->
            IF amount_string[position(k)] = TrueMinus THEN "-"
            ELSE amount_string[position(k)]]

HasDigit(s) == \E i \in 1..Len(s) : s[i] \in Digits

\* an optional hyphen, then digits with at most one period among them
WellFormedSignedDecimal(s) ==
    /\ HasDigit(s)
    /\ \A i \in 2..Len(s) : s[i] # "-"
    /\ Cardinality({i \in 1..Len(s) : s[i] = "."}) <= 1

\* the value a well-formed signed decimal denotes
ValueDenotedBy(s) ==
    [ negative |-> s[1] = "-",
      coefficient |-> DecimalValue(SelectSeq(s, IsDigit)),
      places |-> Cardinality({i \in 1..Len(s) : \E p \in 1..(i - 1) : s[p] = "."}) ]

HyphenForTrueMinus(s) == [i \in 1..Len(s) |-> IF s[i] = TrueMinus THEN "-" ELSE s[i]]

WithoutCurrencySymbols(s) == SelectSeq(s, LAMBDA c : c # "$")

\* C22: _parse_transaction_amount returns None exactly when the string, with
\* true minus signs made hyphens and all but digits, hyphens and periods
\* removed, has no digit; returns the value it denotes when it is a well-formed
\* signed decimal; raises InvalidOperation when it has a digit and is not one;
\* a true minus gives what a hyphen gives, and currency symbols change nothing
C22_AmountIsCleanedThenParsed ==
    (fn = "_parse_transaction_amount" /\ ret # None) =>
        LET cleaned == CleanedByRule(arg) IN
        /\ (ret[1] = Returned(None)) <=> ~HasDigit(cleaned)
        /\ (ret[1] = Raised(InvalidOperation)) <=>
               (HasDigit(cleaned) /\ ~WellFormedSignedDecimal(cleaned))
        /\ WellFormedSignedDecimal(cleaned) =>
               ret[1] = Returned(Some(ValueDenotedBy(cleaned)))
        /\ ret[1] = _parse_transaction_amount(HyphenForTrueMinus(arg))
        /\ ret[1] = _parse_transaction_amount(WithoutCurrencySymbols(arg))

\* "$-5.5" written with a true minus is minus five and a half
C22_Witness ==
    /\ fn = "_parse_transaction_amount"
    /\ arg = <<"$", TrueMinus, "5", ".", "5">>
    /\ ret = Some(Returned(Some([negative |-> TRUE, coefficient |-> 55, places |-> 1])))

----------------------------------------------------------------------------
(* Properties of the file parsers *)

ParsesTransactions == fn = "parse_transactions_file"

\* the number of fields of a data row of the file under study
Arity == IF ParsesTransactions THEN 3 ELSE 10

FileName == IF ParsesTransactions THEN "transactions.csv" ELSE "declarations.csv"

RowErrorClass ==
    IF ParsesTransactions THEN "TransactionRowParsingError" ELSE "DeclarationRowParsingError"

FileErrorClass ==
    IF ParsesTransactions THEN TransactionsFileParsingError ELSE DeclarationsFileParsingError

\* what from_row makes of the i-th data row, which is row i + 1 of the file
FromRowAt(i) ==
    IF ParsesTransactions
    THEN TransactionRow_from_row(arg[1].rows[i], i + 1)
    ELSE DeclarationRow_from_row(arg[1].rows[i])

\* the data rows that do not pass: a wrong number of fields, or refused by from_row
BadRows == {i \in 1..Len(arg[1].rows) : Len(arg[1].rows[i]) # Arity \/ ~FromRowAt(i).ok}

FirstBadRow == CHOOSE i \in BadRows : \A j \in BadRows : i <= j

\* the call under study returned or raised after the file passed its checks
RowsWereRead ==
    ret # None /\ arg # None /\ (ret[1].ok \/ ret[1].exception # FileErrorClass)

\* with no bad row the records of all rows are returned in file order; with
\* one the call raises the row error for the first bad row and returns no list
StopsAtFirstBadRow ==
    RowsWereRead =>
        IF BadRows = {}
        THEN /\ ret[1].ok
             /\ ret[1].value = Some([i \in 1..Len(arg[1].rows) |-> FromRowAt(i).value[1]])
        ELSE /\ ~ret[1].ok
             /\ ret[1].value = None
             /\ ret[1].exception = RowErrorClass
             /\ ret[1].row_index = Some(FirstBadRow + 1)

\* C21 as stated: ..., and the error for the first bad row always carries a
\* note naming its file row number, the column number and the file name
C21_FirstBadRowIsReportedWithANote ==
    /\ StopsAtFirstBadRow
    /\ (RowsWereRead /\ BadRows # {}) =>
           ret[1].notes = <<ErrorParsingRowNote(FirstBadRow + 1, ret[1].column_number, FileName)>>

\* C21: parse_transactions_file and parse_declarations_file stop at the first
\* bad data row in file order and return no list; when from_row refused that
\* row the error carries from_row's column number and one note naming the file
\* row number (header = 1), that column and the file name; when the row has
\* the wrong number of fields the error carries no column number and no note
C21_FirstBadRowIsReported ==
    /\ StopsAtFirstBadRow
    /\ (RowsWereRead /\ BadRows # {}) =>
           IF Len(arg[1].rows[FirstBadRow]) # Arity
           THEN ret[1].column_number = None /\ ret[1].notes = <<>>
           ELSE /\ ret[1].column_number = FromRowAt(FirstBadRow).column_number
                /\ ret[1].column_number # None
                /\ ret[1].notes = <<ErrorParsingRowNote(FirstBadRow + 1,
                                        FromRowAt(FirstBadRow).column_number, FileName)>>

\* both data rows are bad, and the error is the one of row 2: column 3
C21_Witness ==
    /\ ParsesTransactions
    /\ RowsWereRead
    /\ Cardinality(BadRows) = 2
    /\ ret[1].notes = <<ErrorParsingRowNote(2, Some(3), "transactions.csv")>>

ExpectedHeaderRow ==
    IF ParsesTransactions THEN transactions_expected_header_row ELSE expected_header_row

SameUpToCase(a, b) ==
    /\ Len(a) = Len(b)
    /\ \A i \in 1..Len(a) : LowerChar(a[i]) = LowerChar(b[i])

\* `a` is `b` up to letter case, between any whitespace
SameUpToCaseAndPadding(a, b) ==
    \E before \in 0..Len(a) :
        /\ before + Len(b) <= Len(a)
        /\ \A i \in 1..before : a[i] \in Whitespace
        /\ \A i \in (before + Len(b) + 1)..Len(a) : a[i] \in Whitespace
        /\ SameUpToCase(SubSeq(a, before + 1, before + Len(b)), b)

RaisedFileError ==
    ~ret[1].ok /\ ret[1].exception = FileErrorClass /\ ret[1].row_index = None

\* C27 as stated: the file-level error is raised exactly for a missing file
\* and for a header row that has not the expected number of columns or has a
\* header that is not the expected name up to letter case
C27_HeaderIsExactUpToCase ==
    ret # None =>
        (RaisedFileError <=>
            \/ arg = None
            \/ Len(arg[1].header_row) # Arity
            \/ \E i \in 1..Arity : ~SameUpToCase(arg[1].header_row[i], ExpectedHeaderRow[i]))

\* C27: the file-level error is raised exactly for a missing file and for a
\* header row that has not the expected number of columns or has a header
\* that, stripped of surrounding whitespace, is not the expected name up to
\* letter case; it is raised whatever the data rows are
C27_HeaderIsExactUpToCaseAndPadding ==
    ret # None =>
        (RaisedFileError <=>
            \/ arg = None
            \/ Len(arg[1].header_row) # Arity
            \/ \E i \in 1..Arity :
                   ~SameUpToCaseAndPadding(arg[1].header_row[i], ExpectedHeaderRow[i]))

\* an upper-case header row was accepted and the rows after it were parsed
C27_Witness ==
    /\ ~ParsesTransactions
    /\ ret # None
    /\ arg # None
    /\ arg[1].header_row = UpperCaseHeader(expected_header_row)
    /\ ret[1].ok
    /\ Len(ret[1].value[1]) = MaxFileRows

----------------------------------------------------------------------------
(* Properties of the key normaliser *)

\* the characters the claim calls digits, whitespace and punctuation
IgnoredKeyCharacters == {"7", " ", "-"}

InsertedAt(x, i, c) == SubSeq(x, 1, i) \o <<c>> \o SubSeq(x, i + 1, Len(x))

RemovedAt(x, i) == SubSeq(x, 1, i - 1) \o SubSeq(x, i + 1, Len(x))

\* x with the case of its i-th character changed
CaseChangedAt(x, i) ==
    [x EXCEPT ![i] = IF x[i] \in UpperLetters THEN LowerChar(x[i]) ELSE UpperChar(x[i])]

\* strings that differ from x only in letter case, digits, whitespace or punctuation
KeyVariants(x) ==
    {Upper(x), Lower(x)}
        \cup {CaseChangedAt(x, i) : i \in 1..Len(x)}
        \cup {InsertedAt(x, i, c) : <<i, c>> \in (0..Len(x)) \X IgnoredKeyCharacters}
        \cup {RemovedAt(x, i) : i \in {j \in 1..Len(x) : x[j] \in IgnoredKeyCharacters}}

----------------------------------------------------------------------------
(* Properties of the date parser *)

\* the years the date strings can denote, and years just outside the
\* window of the two-digit spelling
CalendarYears ==
    {1, 1900, 1920, 1968, 1969, 1993, 2000, 2008, 2020, 2029, 2031, 2032, 2068, 2069,
     2093, 2100}

\* a day is written with one or two digits; strptime also takes a blank in
\* place of the leading zero
DaySpellings(d) ==
    IF d < 10 THEN {NumberString(d, 1), NumberString(d, 2), <<" ">> \o NumberString(d, 1)}
    ELSE {NumberString(d, 2)}

MonthSpellings(m) ==
    IF m < 10 THEN {NumberString(m, 1), NumberString(m, 2)} ELSE {NumberString(m, 2)}

FourDigitYear(y) == NumberString(y, 4)

\* the two-digit spelling stands for the years 1969 to 2068
HasTwoDigitSpelling(y) == 1969 <= y /\ y <= 2068

YearSpellings(y) ==
    {FourDigitYear(y)} \cup
        (IF HasTwoDigitSpelling(y) THEN {NumberString(y % 100, 2)} ELSE {})

\* day/month/year spellings of one calendar date
DateSpellings(date) ==
    { d \o <<"/">> \o m \o <<"/">> \o y :
          <<d, m, y>> \in DaySpellings(date.day) \X MonthSpellings(date.month)
                              \X YearSpellings(date.year) }

EndsWith(s, suffix) ==
    Len(suffix) <= Len(s) /\ SubSeq(s, Len(s) - Len(suffix) + 1, Len(s)) = suffix

\* the real calendar dates of the years whose spelling arg ends with
CalendarDates ==
    { Date(y, m, d) : <<y, m, d>> \in
          { ymd \in CalendarYears \X (1..12) \X (1..31) :
                /\ \E spelling \in YearSpellings(ymd[1]) : EndsWith(arg, spelling)
                /\ IsValidDate(ymd[1], ymd[2], ymd[3]) } }

\* the calendar dates that arg spells as day/month/year
DatesSpelledByArg == {date \in CalendarDates : arg \in DateSpellings(date)}

\* C25: parse_uk_formatted_date returns a date exactly for the strings that
\* spell a real calendar date as day/month/4-digit-year or
\* day/month/2-digit-year, and the date it returns is the one spelled; the
\* 4-digit and the 2-digit spelling of that date parse to it too; every
\* other string, year-month-day with hyphens for one, fails.
C25_DateIsDayMonthYear ==
    (fn = "parse_uk_formatted_date" /\ ret # None) =>
        /\ (ret[1] # None) = (DatesSpelledByArg # {})
        /\ ret[1] # None =>
              /\ DatesSpelledByArg = {ret[1][1]}
              /\ \A spelling \in DateSpellings(ret[1][1]) :
                     parse_uk_formatted_date(spelling) = ret[1]
        /\ (\E i \in 1..Len(arg) : arg[i] = "-") => ret[1] = None

C25_Witness ==
    /\ fn = "parse_uk_formatted_date"
    /\ arg = <<"8", "/", "0", "2", "/", "9", "3">>
    /\ ret = Some(Some(Date(1993, 2, 8)))

\* a year-month-day string with hyphens has been refused
C25_WitnessHyphens ==
    /\ fn = "parse_uk_formatted_date"
    /\ arg = <<"1", "9", "9", "3", "-", "1", "0", "-", "0", "8">>
    /\ ret = Some(None)

----------------------------------------------------------------------------
(* Properties of the audit log and of the donation list *)

\* the lines a reader of the log file finds: one for each terminator, and one
\* more for text after the last terminator
LinesOf(log) ==
    Cardinality({i \in 1..Len(log) : log[i].newline})
        + (IF log # <<>> /\ ~log[Len(log)].newline THEN 1 ELSE 0)

\* C26: every entry of the transactions log, whatever the outcome it
\* records, is one complete line that ends in a line terminator and names
\* the file row of its transaction, so that the log has as many lines as
\* rows have been processed.
C26_EveryAuditEntryIsACompleteLine ==
    /\ \A i \in 1..Len(transactions_log) :
           /\ transactions_log[i].newline
           /\ transactions_log[i].row_index = i + 1
    /\ LinesOf(transactions_log) = Len(transactions_log)

EmitsDonation(entry) ==
    entry.outcome \in {"detected_as_gift_aidable", "multiple_possible_donors"}

\* the log entries of the rows that emitted a donation, in log order
EmittingEntries == SelectSeq(transactions_log, EmitsDonation)

\* C28: the donations are, in order, those of the rows that emitted one:
\* source rows increase along the list, so no row contributes twice, and
\* each donation has the date and the amount of its source row.
C28_DonationsAreASubsequenceOfTheRows ==
    fn = "_do_filtering_with_logging" =>
        LET emitting == EmittingEntries IN
        /\ Len(transactions) = Len(emitting)
        /\ \A k \in 1..Len(transactions) :
               LET source == transaction_rows[emitting[k].row_index - 1] IN
               /\ source.row_index = emitting[k].row_index
               /\ transactions[k].transaction_date = source.transaction_date
               /\ Some(transactions[k].amount) = source.amount
               /\ k > 1 => emitting[k - 1].row_index < emitting[k].row_index

\* two donations of different dates and amounts, built from the two rows of
\* the file in their order
C28_Witness ==
    /\ fn = "_do_filtering_with_logging"
    /\ pc = "returned"
    /\ Len(transactions) = 2
    /\ transactions[1].transaction_date = Date(1993, 10, 9)
    /\ transactions[1].amount = 500
    /\ transactions[2].transaction_date = Date(1993, 10, 8)
    /\ transactions[2].amount = 1200

\* C29: a run of main whose two files parse is not ended by an exception at
\* the call of build_output_directory.
C29_MainCallIsAccepted ==
    (fn = "main" /\ BothFilesParse) => uncaught_exception # Some("TypeError")

\* the earliest of the dates of a non-empty list of donations
MinimumDate(gift_aidable_transactions) ==
    CHOOSE d \in {gift_aidable_transactions[i].transaction_date :
                      i \in 1..Len(gift_aidable_transactions)} :
        \A i \in 1..Len(gift_aidable_transactions) :
            DateLE(d, gift_aidable_transactions[i].transaction_date)

\* C30: the date written to D13 is the earliest of the dates of the
\* donations written, in whatever order the donations come.
C30_EarliestDateIsTheMinimum ==
    (fn = "_write_transactions_to_output_workbook" /\ ret # None /\ arg # <<>>) =>
        ret[1].D13 = Some(MinimumDate(arg))

====
